---- MODULE Spec2Model ----
(***************************************************************************)
(* Model of the change-detection and risk-classification services:         *)
(*   src/services/gisService.js            (checkProtectedZone,            *)
(*                                          calculateRiskLevel)            *)
(*   src/services/changeDetectionService.js (detectChanges,                *)
(*                                          fallbackDetection,             *)
(*                                          processDetectedSite)           *)
(*   src/services/mlModelService.js        (MLModelService singleton)      *)
(*                                                                         *)
(* The specifications of the module:                                       *)
(*   SpecRisk      calculateRiskLevel applied to bounded violation lists   *)
(*   SpecZone      processDetectedSite on bounded GIS layer sets           *)
(*   SpecPipeline  concurrent detectChanges runs on the singleton          *)
(*                 mlModelService                                          *)
(*   SpecDistrict  getDistrict on a grid of points                         *)
(*   SpecStorage   updateSiteStatus and deleteSite on stored site lists    *)
(*   SpecImagery   getStaticMapImageUrl                                    *)
(*   SpecRegions   findChangeRegions and floodFill, a loop turn at a time  *)
(*   SpecAnalyze   concurrent analyzeSite runs                             *)
(*   SpecStages    the tensors of one inference stage call                 *)
(*   SpecSites     concurrent analyzeSite runs and status updates on a     *)
(*                 store that holds a site                                 *)
(*   SpecPipelineLive  SpecPipeline with every pending settlement          *)
(*                 eventually delivered                                    *)
(* A specification leaves the variables of the others unchanged.           *)
(***************************************************************************)
EXTENDS Integers, Sequences, FiniteSets, Bags, TLC

VARIABLES
  violations,     \* the violation list handed to calculateRiskLevel
  risk,           \* the value calculateRiskLevel returned, NoValue before the call
  gisLayers,      \* the layers mapping handed to checkProtectedZone
  zoneCheck,      \* the value checkProtectedZone returned, NoValue before the call
  mlModelService, \* the fields of the MLModelService singleton
  tfLoads,        \* tf.loadLayersModel / tf.loadGraphModel: state and call counts
  calls,          \* the callers of the service: a bag of activations
  change,         \* the change handed to processDetectedSite
  site,           \* the site processDetectedSite returned, NoValue before
  point,          \* the (lat, lng) handed to getDistrict
  district,       \* [name |-> what getDistrict returned], NoValue before
  mask,           \* the mask handed to findChangeRegions
  extractor,      \* the locals of findChangeRegions and floodFill
  localStorage,   \* the item stored under STORAGE_KEY
  returned,       \* the last storage operation and the value it returned
  clock,          \* what Date.now() reads
  imagery,        \* the locals of a getStaticMapImageUrl call
  stage           \* an inference stage call: its locals and its tensors

varsGIS == <<violations, risk, gisLayers, zoneCheck, change, site>>

varsPipeline == <<mlModelService, tfLoads, calls>>

varsDistrict == <<point, district>>

varsRegions == <<mask, extractor>>

varsStorage == <<localStorage, returned, clock>>

varsImagery == <<imagery>>

varsStage == <<stage>>

\* what the actions of the pipeline leave alone
varsOutsidePipeline ==
  <<varsGIS, varsDistrict, varsRegions, varsStorage, varsImagery,
                 varsStage>>

\* what the actions on the GIS layers leave alone
varsOutsideGIS ==
  <<varsPipeline, varsDistrict, varsRegions, varsStorage, varsImagery,
                 varsStage>>

vars == <<violations, risk, gisLayers, zoneCheck, change, site,
          mlModelService, tfLoads, calls, point, district, mask, extractor,
          localStorage, returned, clock, imagery, stage>>

----------------------------------------------------------------------------
(* Bounds of the model *)

\* longest violation list handed to calculateRiskLevel in SpecRisk
MaxViolations == 5

\* most features held by all GIS layers together in SpecZone
MaxFeatures == 3

\* concurrent callers of the singleton mlModelService in SpecPipeline
NumCallers == 2

\* most change regions a mask yields in SpecPipeline
MaxRegions == 2

\* most candidate detections a detection model yields in SpecPipeline
MaxDetections == 2

----------------------------------------------------------------------------
(* JavaScript values *)

\* the value of a missing property
Undefined == [jsType |-> "undefined"]

\* a variable of the model that holds no value yet
NoValue == [assigned |-> FALSE]

Severities == {"HIGH", "MEDIUM", "LOW"}

\* all sequences over S of length 0..n
SeqUpTo(S, n) == UNION {[1..k -> S] : k \in 0..n}

\* localStorage.getItem(STORAGE_KEY) before anything was stored: null
NoItem == [item |-> "null"]

\* the variables of a part of the program that is not running
IdleSite == change = NoValue /\ site = NoValue

IdleDistrict == point = NoValue /\ district = NoValue

IdleRegions == mask = NoValue /\ extractor = NoValue

IdleStorage == localStorage = NoItem /\ returned = NoValue /\ clock = 0

IdleImagery == imagery = NoValue

IdleStage == stage = NoValue

----------------------------------------------------------------------------
(* gisService.js: calculateRiskLevel *)

\* a plausible slip: the MEDIUM and LOW increments exchanged
WeightSwapped(v) ==
  IF v.severity = "HIGH" THEN 10
  ELSE IF v.severity = "MEDIUM" THEN 2
  ELSE 5

\* the body of the forEach callback: the increment one violation adds
Weight(v) ==
  IF v.severity = "HIGH" THEN 10
  ELSE IF v.severity = "MEDIUM" THEN 5
  ELSE 2

\* violations.forEach(v => ...): score after the elements from index i on
RECURSIVE ForEachScore(_, _, _)
ForEachScore(V, i, score) ==
  IF i > Len(V) THEN score
  ELSE ForEachScore(V, i + 1, score + Weight(V[i]))

\* a plausible slip: strict comparisons at the level thresholds
calculateRiskLevelStrict(V) ==
  IF Len(V) = 0 THEN [level |-> "LOW", score |-> 0]
  ELSE LET score == ForEachScore(V, 1, 0)
       IN  IF score > 10 THEN [level |-> "HIGH", score |-> score]
           ELSE IF score > 5 THEN [level |-> "MEDIUM", score |-> score]
           ELSE [level |-> "LOW", score |-> score]

calculateRiskLevel(V) ==
  IF Len(V) = 0 THEN [level |-> "LOW", score |-> 0]
  ELSE LET score == ForEachScore(V, 1, 0)
       IN  IF score >= 10 THEN [level |-> "HIGH", score |-> score]
           ELSE IF score >= 5 THEN [level |-> "MEDIUM", score |-> score]
           ELSE [level |-> "LOW", score |-> score]

----------------------------------------------------------------------------
(* gisService.js: checkProtectedZone *)

\* the five layers checkProtectedZone reads, in the order it reads them
LayerOrder ==
  <<"waterbodies", "waterways", "vulnerableLocalities", "greenCover", "channels">>

LayerNames == {LayerOrder[i] : i \in 1..Len(LayerOrder)}

\* A feature is modelled by what the turf predicate of its layer yields for
\* the query point:
\*   name      feature.properties?.name ("" when missing or empty)
\*   hit       turf.booleanPointInPolygon(point, feature) for the polygon
\*             layers; for waterways the same test on turf.buffer(feature, 50)
\*   distance  turf.pointToLineDistance(point, feature), in tenths of a metre
\*             (channels only)
FeatureNames == {"", "A"}

PolygonFeatures ==
  {[name |-> "", hit |-> FALSE, distance |-> 0]}
  \cup {[name |-> n, hit |-> TRUE, distance |-> 0] : n \in FeatureNames}

\* 40.0 m, 49.6 m, 50.0 m, 70.0 m, 99.6 m, 100.0 m
ChannelDistances == {400, 496, 500, 700, 996, 1000}

ChannelFeatures ==
  {[name |-> "", hit |-> FALSE, distance |-> d] : d \in ChannelDistances}

FeaturesFor(layer) ==
  IF layer = "channels" THEN ChannelFeatures ELSE PolygonFeatures

\* the result field a layer sets
FlagOf(layer) ==
  CASE layer = "waterbodies" -> "inWaterbody"
    [] layer = "waterways" -> "inWaterway"
    [] layer = "vulnerableLocalities" -> "inVulnerableZone"
    [] layer = "greenCover" -> "inGreenBelt"
    [] layer = "channels" -> "nearChannel"

\* the type of the violation a layer pushes
TypeOf(layer) ==
  CASE layer = "waterbodies" -> "Waterbody Encroachment"
    [] layer = "waterways" -> "Waterway Buffer Violation"
    [] layer = "vulnerableLocalities" -> "Flood Risk Zone"
    [] layer = "greenCover" -> "Green Belt Encroachment"
    [] layer = "channels" -> "Channel Proximity"

\* feature.properties?.name || <default>
LabelOf(layer, feature) ==
  IF layer = "channels" THEN "Drainage Channel"
  ELSE IF feature.name # "" THEN feature.name
  ELSE CASE layer = "waterbodies" -> "Unnamed Waterbody"
         [] layer = "waterways" -> "Waterway"
         [] layer = "vulnerableLocalities" -> "Vulnerable Locality"
         [] layer = "greenCover" -> "Park/Green Space"

\* Math.round of a non-negative length given in tenths: whole metres
MathRound(tenths) == (tenths + 5) \div 10

\* the object pushed onto results.violations; the template literal
\* `${Math.round(distance)}m` is the record [metres, unit]
ViolationFor(layer, feature) ==
  [type |-> TypeOf(layer),
   feature |-> LabelOf(layer, feature),
   severity |->
     CASE layer = "greenCover" -> "MEDIUM"
       [] layer = "channels" ->
            IF feature.distance < 500 THEN "HIGH" ELSE "MEDIUM"
       [] OTHER -> "HIGH",
   distance |->
     CASE layer = "waterways" -> [text |-> "within 50m buffer"]
       [] layer = "channels" ->
            [metres |-> MathRound(feature.distance), unit |-> "m"]
       [] OTHER -> Undefined]

\* the condition of the if inside a layer's loop
Matches(layer, feature) ==
  IF layer = "channels" THEN feature.distance < 1000 ELSE feature.hit

\* a plausible slip: the loop does not stop at its first match, so that the
\* last matching feature is the one reported
RECURSIVE ScanLayerLast(_, _, _)
ScanLayerLast(layer, features, i) ==
  IF i > Len(features) THEN 0
  ELSE LET later == ScanLayerLast(layer, features, i + 1)
       IN  IF later # 0 THEN later
           ELSE IF Matches(layer, features[i]) THEN i
           ELSE 0

\* for (const feature of features) { if (...) { ...; break; } } from index i:
\* the index of the feature the loop breaks at, 0 when it runs to the end
RECURSIVE ScanLayer(_, _, _)
ScanLayer(layer, features, i) ==
  IF i > Len(features) THEN 0
  ELSE IF Matches(layer, features[i]) THEN i
  ELSE ScanLayer(layer, features, i + 1)

\* the truthiness of `layers.<name>`: a layer absent from the mapping reads
\* as undefined
HasLayer(layers, layer) == layer \in DOMAIN layers

\* `layers.<name>.features || []` for a layer that is present: a collection
\* without a features property yields the empty list
FeaturesOrEmpty(layerValue) ==
  IF "features" \in DOMAIN layerValue THEN layerValue.features ELSE <<>>

\* the body of a layer's block: scan the features, push at the first match
ScanAndPush(results, layers, layer) ==
  LET features == FeaturesOrEmpty(layers[layer])
      i == ScanLayer(layer, features, 1)
  IN  IF i = 0 THEN results
      ELSE [results EXCEPT
              ![FlagOf(layer)] = TRUE,
              !.violations = Append(@, ViolationFor(layer, features[i]))]

\* a plausible slip: the `if (layers.<name>)` guard left out, so that
\* `.features` is read from undefined, which raises a TypeError
CheckLayerUnguarded(results, layers, layer) ==
  IF results.error # "none" THEN results
  ELSE IF ~HasLayer(layers, layer) THEN [results EXCEPT !.error = "TypeError"]
  ELSE ScanAndPush(results, layers, layer)

\* one `if (layers.<name>) { for ... }` block of checkProtectedZone, run on
\* the results object built so far; an exception ends the function
CheckLayer(results, layers, layer) ==
  IF results.error # "none" THEN results
  ELSE IF ~HasLayer(layers, layer) THEN results
  ELSE ScanAndPush(results, layers, layer)

\* the five blocks in source order
RECURSIVE CheckLayersFrom(_, _, _)
CheckLayersFrom(results, layers, k) ==
  IF k > Len(LayerOrder) THEN results
  ELSE CheckLayersFrom(CheckLayer(results, layers, LayerOrder[k]), layers, k + 1)

\* the returned results object; error is the exception raised instead, if any
checkProtectedZone(layers) ==
  CheckLayersFrom(
    [inWaterbody |-> FALSE, inWaterway |-> FALSE, inVulnerableZone |-> FALSE,
     inGreenBelt |-> FALSE, nearChannel |-> FALSE, violations |-> <<>>,
     error |-> "none"],
    layers, 1)

----------------------------------------------------------------------------
(* gisService.js: getDistrict                                              *)
(* latitudes and longitudes are in hundredths of a degree                  *)

\* grid steps of 0.05 degrees that the points extend past the region
MarginSteps == 2

Latitudes == {5 * k : k \in (340 - MarginSteps)..(360 + MarginSteps)}

Longitudes == {5 * k : k \in (1550 - MarginSteps)..(1580 + MarginSteps)}

Points == [lat : Latitudes, lng : Longitudes]

\* the if statements of getDistrict, in source order
DistrictRules ==
  <<[name |-> "Hyderabad",  south |-> 1730, north |-> 1750,
     west |-> 7840, east |-> 7860],
    [name |-> "Medchal",    south |-> 1750, north |-> 1800,
     west |-> 7840, east |-> 7880],
    [name |-> "Sangareddy", south |-> 1760, north |-> 1800,
     west |-> 7780, east |-> 7820],
    [name |-> "Vikarabad",  south |-> 1720, north |-> 1780,
     west |-> 7750, east |-> 7820],
    [name |-> "Rangareddy", south |-> 1720, north |-> 1760,
     west |-> 7820, east |-> 7880]>>

\* the condition of one if statement
RuleMatches(rule, lat, lng) ==
  /\ lat >= rule.south /\ lat <= rule.north
  /\ lng >= rule.west /\ lng <= rule.east

\* the if statements of a rule list from index i on, then 'Unknown'
RECURSIVE FirstMatch(_, _, _, _)
FirstMatch(rules, i, lat, lng) ==
  IF i > Len(rules) THEN "Unknown"
  ELSE IF RuleMatches(rules[i], lat, lng) THEN rules[i].name
  ELSE FirstMatch(rules, i + 1, lat, lng)

\* the rule list back to front
Reversed(rules) == [i \in 1..Len(rules) |-> rules[Len(rules) + 1 - i]]

\* a plausible slip: the rules tested in the order of the comment above
\* them, which lists Rangareddy before the districts it overlaps
getDistrictCommentOrder(lat, lng) ==
  FirstMatch(<<DistrictRules[1], DistrictRules[5], DistrictRules[3],
               DistrictRules[4], DistrictRules[2]>>, 1, lat, lng)

getDistrict(lat, lng) == FirstMatch(DistrictRules, 1, lat, lng)

----------------------------------------------------------------------------
(* mlModelService.js and changeDetectionService.js                         *)
(*                                                                         *)
(* JavaScript runs each caller to its next await without interruption, so  *)
(* an action is one such synchronous stretch.  An operator below is the    *)
(* stretch of code it names; it yields the caller's new pc, locals and     *)
(* result and the new state of the service (an "outcome").                 *)

\* A caller is known to the service only by what it called and how far its
\* call has come, so the callers are kept as a bag of activations
\*   call    the entry point called and its arguments, NoValue before
\*   pc      the await the call is suspended at
\*   frame   the locals of the call
\*   result  the value the call returned, NoValue before
Activation(c, p, f, res) ==
  [call |-> c, pc |-> p, frame |-> f, result |-> res]

MLLabel == "UNet + Mask R-CNN"

FallbackLabel == "Fallback (No ML models available)"

\* the arguments of a call: image objects for beforeImage / afterImage, or
\* null for an image the imagery source failed to give
ImageArgs ==
  {[before |-> "image", after |-> "image"],
   [before |-> "null", after |-> "image"],
   [before |-> "image", after |-> "null"]}

\* the entry points callers use:
\*   detectChanges                  changeDetectionService.detectChanges
\*   detectBuildingsWithMaskRCNN    the service method, changeRegions = []
\*   loadModels                     the service method
Calls ==
  {[kind |-> "detectChanges", images |-> i] : i \in ImageArgs}
  \cup {[kind |-> "detectBuildingsWithMaskRCNN",
         images |-> [before |-> "image", after |-> "image"]]}
  \cup {[kind |-> "loadModels",
         images |-> [before |-> "image", after |-> "image"]]}

\* the constructor of MLModelService
NewService ==
  [unetModel |-> "null", maskRCNNModel |-> "null",
   modelsLoaded |-> FALSE, loadingPromise |-> "null"]

NoLoads ==
  [unet |-> "idle", maskRCNN |-> "idle",
   loadLayersModelCalls |-> 0, loadGraphModelCalls |-> 0]

\* the locals of a call:
\*   regions      changeMask.regions.length (changeRegions.length for a
\*                direct detectBuildingsWithMaskRCNN call); -1 before the
\*                change mask exists
\*   confidence   the largest value of changeMask.confidence, in hundredths
\*   failedStep   the step of this run that raised an exception, if any
\*   path         "fallback" once fallbackDetection has been entered
\*   detectBuildingsCalls, maskRCNNPredictCalls
\*                calls this run made of detectBuildingsWithMaskRCNN and
\*                of maskRCNNModel.predict
\*   predictOnEmptySlot
\*                this run read .predict of a model slot that held null
NewFrame ==
  [regions |-> -1, confidence |-> 0, failedStep |-> "none",
   path |-> "inference", detectBuildingsCalls |-> 0,
   maskRCNNPredictCalls |-> 0, predictOnEmptySlot |-> FALSE]

Outcome(p, f, res, ml, tfl) ==
  [pc |-> p, frame |-> f, result |-> res, ml |-> ml, tf |-> tfl]

\* a plausible slip: loadingPromise is not recorded when the loads start, so
\* a call arriving while they are in flight starts them again
loadModelsUnmemoized(ml, tfl) ==
  [ml |-> ml,
   tf |-> [tfl EXCEPT !.unet = "inflight", !.maskRCNN = "inflight",
                      !.loadLayersModelCalls = @ + 1,
                      !.loadGraphModelCalls = @ + 1]]

\* loadModels up to the return of the promise: a recorded promise is
\* returned as it is; otherwise loadUNetModel and loadMaskRCNNModel run to
\* their awaits of tf.loadLayersModel / tf.loadGraphModel and the promise of
\* their Promise.all is recorded
loadModels(ml, tfl) ==
  IF ml.loadingPromise # "null" THEN [ml |-> ml, tf |-> tfl]
  ELSE [ml |-> [ml EXCEPT !.loadingPromise = "pending"],
        tf |-> [tfl EXCEPT !.unet = "inflight", !.maskRCNN = "inflight",
                           !.loadLayersModelCalls = @ + 1,
                           !.loadGraphModelCalls = @ + 1]]

\* a plausible slip: the result claims the ML method
fallbackResultMislabelled(c, p, q, now) ==
  IF ~(p > 60)
  THEN [hasChange |-> FALSE, confidence |-> 100 - p, changes |-> <<>>,
        method |-> MLLabel]
  ELSE [hasChange |-> TRUE, confidence |-> p,
        changes |-> [i \in 1..(((q * 3) \div 100) + 1) |->
                       [id |-> <<"change", now, i - 1>>,
                        detectionMethod |-> "Fallback"]],
        method |-> MLLabel]

\* fallbackDetection after its timer, for the Math.random() draws p
\* (changeProbability) and q (for numChanges), in hundredths, and the
\* reading now of Date.now(); a change is modelled by its id
\* change_${Date.now()}_${i} and its detectionMethod
fallbackResult(c, p, q, now) ==
  IF ~(p > 60)
  THEN [hasChange |-> FALSE, confidence |-> 100 - p, changes |-> <<>>,
        method |-> FallbackLabel]
  ELSE [hasChange |-> TRUE, confidence |-> p,
        changes |-> [i \in 1..(((q * 3) \div 100) + 1) |->
                       [id |-> <<"change", now, i - 1>>,
                        detectionMethod |-> "Fallback"]],
        method |-> FallbackLabel]

\* the calls that run detectChanges: the entry point itself, and
\* analyzeSite, which calls it with the imagery it fetched
RunsDetectChanges(c) == c.kind \in {"detectChanges", "analyzeSite"}

\* an exception leaves the service method: detectChanges catches it and
\* calls fallbackDetection, which awaits its timer; a direct caller of the
\* service method gets the rejection
Raise(c, f, ml, tfl, step) ==
  IF RunsDetectChanges(c)
  THEN Outcome("fallbackTimer",
               [f EXCEPT !.failedStep = step, !.path = "fallback"],
               NoValue, ml, tfl)
  ELSE Outcome("rejected", [f EXCEPT !.failedStep = step], NoValue, ml, tfl)

\* detectChangesWithUNet from its try to the first loadImageElement
BeginUNet(c, f, ml, tfl) ==
  IF c.images.before = "null"
  THEN Raise(c, f, ml, tfl, "imageLoad")
  ELSE Outcome("awaitBeforeImage", f, NoValue, ml, tfl)

\* detectBuildingsWithMaskRCNN from its try to loadImageElement
BeginMaskRCNNTry(c, f, ml, tfl) ==
  IF c.images.after = "null"
  THEN Raise(c, f, ml, tfl, "buildingInference")
  ELSE Outcome("awaitBuildingImage", f, NoValue, ml, tfl)

\* detectBuildingsWithMaskRCNN(image, changeRegions) up to its first await
BeginMaskRCNN(c, f, ml, tfl) ==
  LET f1 == [f EXCEPT !.detectBuildingsCalls = @ + 1]
  IN  IF ~ml.modelsLoaded
      THEN LET l == loadModels(ml, tfl)
           IN  Outcome("awaitLoad", f1, NoValue, l.ml, l.tf)
      ELSE BeginMaskRCNNTry(c, f1, ml, tfl)

\* a plausible slip: the early return on an empty region list left out
AfterChangeMaskNoEarlyExit(c, f, ml, tfl, n, conf) ==
  BeginMaskRCNN(c, [f EXCEPT !.regions = n, !.confidence = conf], ml, tfl)

\* detectChanges once detectChangesWithUNet has returned a change mask with
\* n regions: the early return, or the call of detectBuildingsWithMaskRCNN
AfterChangeMask(c, f, ml, tfl, n, conf) ==
  LET f1 == [f EXCEPT !.regions = n, !.confidence = conf]
  IN  IF n = 0
      THEN Outcome("done", f1,
                   [hasChange |-> FALSE, confidence |-> 95, changes |-> <<>>,
                    method |-> MLLabel],
                   ml, tfl)
      ELSE BeginMaskRCNN(c, f1, ml, tfl)

\* the elements of a set of numbers in increasing order
RECURSIVE Sorted(_)
Sorted(S) ==
  IF S = {} THEN <<>>
  ELSE LET m == CHOOSE x \in S : \A y \in S : x <= y
       IN  <<m>> \o Sorted(S \ {m})

\* buildings.map(...) and the return of detectChanges: one change per
\* building, identified by building.id = `building_${i}`
Georeference(c, f, ml, tfl, buildings) ==
  Outcome("done", f,
          [hasChange |-> TRUE,
           confidence |-> f.confidence,
           changes |-> [k \in 1..Len(buildings) |->
                          [id |-> <<"building", buildings[k]>>,
                           detectionMethod |-> MLLabel]],
           method |-> MLLabel,
           changeRegions |-> f.regions,
           buildingsDetected |-> Len(buildings)],
          ml, tfl)

\* detectBuildingsWithMaskRCNN from predict to its return.
\*   prediction  what maskRCNNModel.predict gave: "promise" (the
\*               placeholder's async predict), "array" or "tensor" (a graph
\*               model), or "throws"
\*   detected    the indexes i with scores[i] > 0.5
\*   kept        those filterBuildingsInChangeRegions keeps
\* postprocessMaskRCNN reads detections only from an array; with regions it
\* returns the filtered list, without it disposes the tensors (dispose is
\* no method of a promise or an array) and returns the list; .predict of a
\* slot that holds null raises a TypeError
FinishMaskRCNN(c, f, ml, tfl, prediction, detected, kept) ==
  LET f1 == [f EXCEPT !.maskRCNNPredictCalls = @ + 1]
      buildings == IF prediction = "array" THEN Sorted(detected) ELSE <<>>
      regions == IF RunsDetectChanges(c) THEN f.regions ELSE 0
  IN  IF ml.maskRCNNModel = "null"
      THEN Raise(c, [f EXCEPT !.predictOnEmptySlot = TRUE], ml, tfl,
                 "buildingInference")
      ELSE IF prediction = "throws"
      THEN Raise(c, f1, ml, tfl, "buildingInference")
      ELSE IF regions > 0
      THEN LET filtered == IF prediction = "array" THEN Sorted(kept) ELSE <<>>
           IN  IF RunsDetectChanges(c)
               THEN Georeference(c, f1, ml, tfl, filtered)
               ELSE Outcome("done", f1, [buildings |-> filtered], ml, tfl)
      ELSE IF prediction # "tensor"
      THEN Raise(c, f1, ml, tfl, "buildingInference")
      ELSE Outcome("done", f1, [buildings |-> buildings], ml, tfl)

\* what predict of the loaded detection model can give
PredictionsOf(model) ==
  IF model = "placeholder" THEN {"promise"} ELSE {"array", "tensor", "throws"}

\* the sets of indexes i with scores[i] > 0.5 a prediction can hold
DetectionsOf(prediction) ==
  IF prediction = "array" THEN SUBSET (0..(MaxDetections - 1)) ELSE {{}}

\* Math.random(), in hundredths
RandomDraws == {0, 60, 99}

IdlePipeline ==
  /\ mlModelService = NewService
  /\ tfLoads = NoLoads
  /\ calls = [a \in {Activation(NoValue, "idle", NewFrame, NoValue)}
                |-> NumCallers]

\* the activation a of call c takes the outcome of its stretch of code
Take(a, c, o) ==
  /\ calls' = (calls (-) SetToBag({a}))
                (+) SetToBag({Activation(c, o.pc, o.frame, o.result)})
  /\ mlModelService' = o.ml
  /\ tfLoads' = o.tf

\* a caller calls an entry point: the code up to the first await
Call(a, c) ==
  /\ a.pc = "idle"
  /\ IF c.kind = "detectBuildingsWithMaskRCNN"
     THEN Take(a, c, BeginMaskRCNN(c, a.frame, mlModelService, tfLoads))
     ELSE IF c.kind = "loadModels" \/ ~mlModelService.modelsLoaded
     THEN LET l == loadModels(mlModelService, tfLoads)
          IN  Take(a, c, Outcome("awaitLoad", a.frame, NoValue, l.ml, l.tf))
     ELSE Take(a, c, BeginUNet(c, a.frame, mlModelService, tfLoads))
  /\ UNCHANGED varsOutsidePipeline

\* a plausible slip: a failed load leaves the slot as it was
UNetLoadSettlesNoPlaceholder(ok) ==
  /\ tfLoads.unet = "inflight"
  /\ tfLoads' = [tfLoads EXCEPT !.unet = "settled"]
  /\ mlModelService' =
       [mlModelService EXCEPT !.unetModel = IF ok THEN "real" ELSE @]
  /\ UNCHANGED calls
  /\ UNCHANGED varsOutsidePipeline

\* tf.loadLayersModel settles and loadUNetModel resumes: the model, or on
\* failure what createPlaceholderUNet builds (taken to return a model)
UNetLoadSettles(ok) ==
  /\ tfLoads.unet = "inflight"
  /\ tfLoads' = [tfLoads EXCEPT !.unet = "settled"]
  /\ mlModelService' =
       [mlModelService EXCEPT
          !.unetModel = IF ok THEN "real" ELSE "placeholder"]
  /\ UNCHANGED calls
  /\ UNCHANGED varsOutsidePipeline

\* tf.loadGraphModel settles and loadMaskRCNNModel resumes
MaskRCNNLoadSettles(ok) ==
  /\ tfLoads.maskRCNN = "inflight"
  /\ tfLoads' = [tfLoads EXCEPT !.maskRCNN = "settled"]
  /\ mlModelService' =
       [mlModelService EXCEPT
          !.maskRCNNModel = IF ok THEN "real" ELSE "placeholder"]
  /\ UNCHANGED calls
  /\ UNCHANGED varsOutsidePipeline

\* the then-callback of the Promise.all in loadModels
ModelsLoaded ==
  /\ tfLoads.unet = "settled"
  /\ tfLoads.maskRCNN = "settled"
  /\ ~mlModelService.modelsLoaded
  /\ mlModelService' =
       [mlModelService EXCEPT !.modelsLoaded = TRUE,
                              !.loadingPromise = "fulfilled"]
  /\ UNCHANGED <<tfLoads, calls>>
  /\ UNCHANGED varsOutsidePipeline

\* a caller resumes from `await this.loadModels()`
ResumeAfterLoad(a) ==
  /\ a.pc = "awaitLoad"
  /\ mlModelService.loadingPromise = "fulfilled"
  /\ IF a.call.kind = "loadModels"
     THEN Take(a, a.call, Outcome("done", a.frame, [loaded |-> TRUE],
                          mlModelService, tfLoads))
     ELSE IF a.call.kind = "detectBuildingsWithMaskRCNN"
     THEN Take(a, a.call, BeginMaskRCNNTry(a.call, a.frame, mlModelService, tfLoads))
     ELSE Take(a, a.call, BeginUNet(a.call, a.frame, mlModelService, tfLoads))
  /\ UNCHANGED varsOutsidePipeline

\* loadImageElement(beforeImage.url) settles
BeforeImageSettles(a, ok) ==
  /\ a.pc = "awaitBeforeImage"
  /\ IF ~ok \/ a.call.images.after = "null"
     THEN Take(a, a.call, Raise(a.call, a.frame, mlModelService, tfLoads,
                        "imageLoad"))
     ELSE Take(a, a.call, Outcome("awaitAfterImage", a.frame, NoValue,
                          mlModelService, tfLoads))
  /\ UNCHANGED varsOutsidePipeline

\* loadImageElement(afterImage.url) settles; then preprocessing, tf.concat
\* and unetModel.predict, and postprocessChangeMask up to
\* `await prediction.data()`
AfterImageSettles(a, ok, predictOk) ==
  /\ a.pc = "awaitAfterImage"
  /\ IF ~ok
     THEN Take(a, a.call, Raise(a.call, a.frame, mlModelService, tfLoads,
                        "imageLoad"))
     ELSE IF mlModelService.unetModel = "null"
     THEN Take(a, a.call, Raise(a.call,
                        [a.frame EXCEPT !.predictOnEmptySlot = TRUE],
                        mlModelService, tfLoads, "unetPredict"))
     ELSE IF ~predictOk
     THEN Take(a, a.call, Raise(a.call, a.frame, mlModelService, tfLoads,
                        "unetPredict"))
     ELSE Take(a, a.call, Outcome("awaitPredictionData", a.frame, NoValue,
                          mlModelService, tfLoads))
  /\ UNCHANGED varsOutsidePipeline

\* prediction.data() settles.  A rejection, or an exception of the
\* thresholding, is caught by postprocessChangeMask, which then returns an
\* empty region list; otherwise findChangeRegions runs to `await mask.data()`
PredictionDataSettles(a, ok) ==
  /\ a.pc = "awaitPredictionData"
  /\ IF ~ok
     THEN Take(a, a.call, AfterChangeMask(
                    a.call, [a.frame EXCEPT !.failedStep = "postprocess"],
                    mlModelService, tfLoads, 0, 0))
     ELSE Take(a, a.call, Outcome("awaitMaskData", a.frame, NoValue,
                          mlModelService, tfLoads))
  /\ UNCHANGED varsOutsidePipeline

\* mask.data() settles.  A rejection, or an exception of the scan, is caught
\* by findChangeRegions, which then returns []; otherwise the scan yields n
\* regions and the mask's largest probability is conf
MaskDataSettles(a, ok, n, conf) ==
  /\ a.pc = "awaitMaskData"
  /\ IF ~ok
     THEN Take(a, a.call, AfterChangeMask(
                    a.call,
                    [a.frame EXCEPT !.failedStep = "regionExtraction"],
                    mlModelService, tfLoads, 0, conf))
     ELSE Take(a, a.call, AfterChangeMask(a.call, a.frame, mlModelService, tfLoads,
                                  n, conf))
  /\ UNCHANGED varsOutsidePipeline

\* loadImageElement(image.url) of detectBuildingsWithMaskRCNN settles; then
\* preprocessing, predict, postprocessMaskRCNN (which holds no await of its
\* own) and the rest of the method
BuildingImageSettles(a, ok, prediction, detected, kept) ==
  /\ a.pc = "awaitBuildingImage"
  /\ IF ~ok
     THEN Take(a, a.call, Raise(a.call, a.frame, mlModelService, tfLoads,
                                "buildingInference"))
     ELSE Take(a, a.call, FinishMaskRCNN(a.call, a.frame, mlModelService,
                                         tfLoads, prediction, detected, kept))
  /\ UNCHANGED varsOutsidePipeline

\* the timer of fallbackDetection fires; the function then draws its random
\* numbers and, for a change, reads beforeImage.url and afterImage.url,
\* which raises a TypeError on a null image
FallbackTimerFires(a, p, q) ==
  /\ a.pc = "fallbackTimer"
  /\ LET res == fallbackResult(a.call, p, q, clock)
     IN  IF res.hasChange /\ (a.call.images.before = "null"
                              \/ a.call.images.after = "null")
         THEN Take(a, a.call, Outcome("rejected", a.frame, NoValue,
                              mlModelService, tfLoads))
         ELSE Take(a, a.call, Outcome("done", a.frame, res, mlModelService, tfLoads))
  /\ UNCHANGED varsOutsidePipeline

\* the largest probabilities of a mask: above 0.5 when it has a region
MaskMaxima(n) == IF n = 0 THEN {0} ELSE {90}

NextPipeline ==
  \/ \E a \in BagToSet(calls) : \E c \in Calls : Call(a, c)
  \/ \E ok \in BOOLEAN : UNetLoadSettles(ok)
  \/ \E ok \in BOOLEAN : MaskRCNNLoadSettles(ok)
  \/ ModelsLoaded
  \/ \E a \in BagToSet(calls) : ResumeAfterLoad(a)
  \/ \E a \in BagToSet(calls) : \E ok \in BOOLEAN : BeforeImageSettles(a, ok)
  \/ \E a \in BagToSet(calls) : \E ok, predictOk \in BOOLEAN :
       AfterImageSettles(a, ok, predictOk)
  \/ \E a \in BagToSet(calls) : \E ok \in BOOLEAN : PredictionDataSettles(a, ok)
  \/ \E a \in BagToSet(calls) : \E ok \in BOOLEAN :
       \E n \in (IF ok THEN 0..MaxRegions ELSE {0}) :
         \E conf \in MaskMaxima(n) : MaskDataSettles(a, ok, n, conf)
  \/ \E a \in BagToSet(calls) : \E ok \in BOOLEAN :
       \E prediction \in PredictionsOf(mlModelService.maskRCNNModel) :
         \E detected \in DetectionsOf(prediction) : \E kept \in SUBSET detected :
           BuildingImageSettles(a, ok, prediction, detected, kept)
  \/ \E a \in BagToSet(calls) : \E p \in RandomDraws :
       \E q \in (IF p > 60 THEN RandomDraws ELSE {0}) :
         FallbackTimerFires(a, p, q)

InitPipeline ==
  /\ IdlePipeline
  /\ violations = <<>>
  /\ risk = NoValue
  /\ gisLayers = [l \in {} |-> Undefined]
  /\ zoneCheck = NoValue
  /\ IdleSite /\ IdleDistrict /\ IdleRegions /\ IdleStorage /\ IdleImagery
  /\ IdleStage

SpecPipeline == InitPipeline /\ [][NextPipeline]_vars

\* what the collaborators of the runs do: the loads, image loads, data
\* reads and timers that settle, and the continuations of the promises
Settles ==
  \/ \E ok \in BOOLEAN : UNetLoadSettles(ok)
  \/ \E ok \in BOOLEAN : MaskRCNNLoadSettles(ok)
  \/ ModelsLoaded
  \/ \E a \in BagToSet(calls) : ResumeAfterLoad(a)
  \/ \E a \in BagToSet(calls) : \E ok \in BOOLEAN : BeforeImageSettles(a, ok)
  \/ \E a \in BagToSet(calls) : \E ok, predictOk \in BOOLEAN :
       AfterImageSettles(a, ok, predictOk)
  \/ \E a \in BagToSet(calls) : \E ok \in BOOLEAN : PredictionDataSettles(a, ok)
  \/ \E a \in BagToSet(calls) : \E ok \in BOOLEAN :
       \E n \in (IF ok THEN 0..MaxRegions ELSE {0}) :
         \E conf \in MaskMaxima(n) : MaskDataSettles(a, ok, n, conf)
  \/ \E a \in BagToSet(calls) : \E ok \in BOOLEAN :
       \E prediction \in PredictionsOf(mlModelService.maskRCNNModel) :
         \E detected \in DetectionsOf(prediction) : \E kept \in SUBSET detected :
           BuildingImageSettles(a, ok, prediction, detected, kept)
  \/ \E a \in BagToSet(calls) : \E p \in RandomDraws :
       \E q \in (IF p > 60 THEN RandomDraws ELSE {0}) :
         FallbackTimerFires(a, p, q)

\* SpecPipeline where every load, image load, data read and timer that is
\* awaited settles in the end; callers need not call
SpecPipelineLive == SpecPipeline /\ WF_vars(Settles)

----------------------------------------------------------------------------
\* the layers mapping with every layer absent
NoLayers == [l \in {} |-> Undefined]

(* SpecRisk: calculateRiskLevel on every violation list up to MaxViolations *)

InitRisk ==
  /\ violations \in SeqUpTo([severity : Severities], MaxViolations)
  /\ risk = NoValue
  /\ gisLayers = NoLayers
  /\ zoneCheck = NoValue
  /\ IdlePipeline
  /\ IdleSite /\ IdleDistrict /\ IdleRegions /\ IdleStorage /\ IdleImagery
  /\ IdleStage

CalculateRisk ==
  /\ risk = NoValue
  /\ risk' = calculateRiskLevel(violations)
  /\ UNCHANGED <<violations, gisLayers, zoneCheck, change, site>>
  /\ UNCHANGED varsOutsideGIS

NextRisk == CalculateRisk

SpecRisk == InitRisk /\ [][NextRisk]_vars

----------------------------------------------------------------------------
(* SpecZone: the GIS layer source delivers layers and features, then       *)
(* processDetectedSite runs checkProtectedZone and calculateRiskLevel      *)

FeatureCount(layers) ==
  LET n(l) == IF HasLayer(layers, l)
              THEN Len(FeaturesOrEmpty(layers[l])) ELSE 0
  IN  n("waterbodies") + n("waterways") + n("vulnerableLocalities")
      + n("greenCover") + n("channels")

\* a parsed GeoJSON collection without a features property, and
\* loadWithFallback's { type: 'FeatureCollection', features: [] }
EmptyCollections ==
  {[type |-> "FeatureCollection"],
   [type |-> "FeatureCollection", features |-> <<>>]}

\* the changes handed to processDetectedSite: one as detectChanges builds
\* it from a building (with its bbox), one as fallbackDetection builds it;
\* the first lies in the Hyderabad rectangle, the second in no rectangle
Changes ==
  {[id |-> <<"building", 0>>,
    coordinates |-> [lat |-> 1740, lng |-> 7850],
    area |-> 50, type |-> "Infrastructure", confidence |-> 80,
    detectedDate |-> "now", beforeImage |-> "before.jpg",
    afterImage |-> "after.jpg",
    bbox |-> [x |-> 0, y |-> 0, width |-> 10, height |-> 10],
    detectionMethod |-> "UNet + Mask R-CNN"],
   [id |-> <<"change", 0, 0>>,
    coordinates |-> [lat |-> 1705, lng |-> 7895],
    area |-> 100, type |-> "Residential Building", confidence |-> 70,
    detectedDate |-> "earlier", beforeImage |-> "before.jpg",
    afterImage |-> "after.jpg",
    detectionMethod |-> "Fallback"]}

\* a plausible slip: the evidence references exchanged
processDetectedSiteSwapped(s, layers) ==
  LET zc == checkProtectedZone(layers)
      r == calculateRiskLevel(zc.violations)
  IN  [riskLevel |-> r.level, riskScore |-> r.score,
       violations |-> zc.violations,
       district |-> getDistrict(s.coordinates.lat, s.coordinates.lng),
       status |-> "PENDING", reportedDate |-> "now",
       evidence |-> [beforeImage |-> s.afterImage,
                     afterImage |-> s.beforeImage,
                     coordinates |-> s.coordinates]] @@ s

\* the object processDetectedSite returns: the fields of the site (the
\* spread), overridden by the fields written after it
processDetectedSite(s, layers) ==
  LET zc == checkProtectedZone(layers)
      r == calculateRiskLevel(zc.violations)
  IN  [riskLevel |-> r.level, riskScore |-> r.score,
       violations |-> zc.violations,
       district |-> getDistrict(s.coordinates.lat, s.coordinates.lng),
       status |-> "PENDING", reportedDate |-> "now",
       evidence |-> [beforeImage |-> s.beforeImage,
                     afterImage |-> s.afterImage,
                     coordinates |-> s.coordinates]] @@ s

InitZone ==
  /\ gisLayers = NoLayers
  /\ zoneCheck = NoValue
  /\ violations = <<>>
  /\ risk = NoValue
  /\ change \in Changes
  /\ site = NoValue
  /\ IdlePipeline
  /\ IdleDistrict /\ IdleRegions /\ IdleStorage /\ IdleImagery
  /\ IdleStage

\* the layer source yields a collection for a layer: without a features
\* list, or with an empty one (loadWithFallback's last resort)
LoadLayer(l, c) ==
  /\ zoneCheck = NoValue
  /\ ~HasLayer(gisLayers, l)
  /\ gisLayers' = (l :> c) @@ gisLayers
  /\ UNCHANGED <<zoneCheck, violations, risk, change, site>>
  /\ UNCHANGED varsOutsideGIS

\* the collection of a layer holds one more feature
LoadFeature(l, f) ==
  /\ zoneCheck = NoValue
  /\ HasLayer(gisLayers, l)
  /\ "features" \in DOMAIN gisLayers[l]
  /\ FeatureCount(gisLayers) < MaxFeatures
  /\ gisLayers' = [gisLayers EXCEPT ![l].features = Append(@, f)]
  /\ UNCHANGED <<zoneCheck, violations, risk, change, site>>
  /\ UNCHANGED varsOutsideGIS

\* processDetectedSite: zoneCheck, then risk of zoneCheck.violations, then
\* the returned site; an exception of checkProtectedZone leaves no site
ProcessDetectedSite ==
  /\ zoneCheck = NoValue
  /\ zoneCheck' = checkProtectedZone(gisLayers)
  /\ IF zoneCheck'.error = "none"
     THEN /\ violations' = zoneCheck'.violations
          /\ risk' = calculateRiskLevel(violations')
          /\ site' = processDetectedSite(change, gisLayers)
     ELSE UNCHANGED <<violations, risk, site>>
  /\ UNCHANGED <<gisLayers, change>>
  /\ UNCHANGED varsOutsideGIS

NextZone ==
  \/ \E l \in LayerNames : \E c \in EmptyCollections : LoadLayer(l, c)
  \/ \E l \in LayerNames : \E f \in FeaturesFor(l) : LoadFeature(l, f)
  \/ ProcessDetectedSite

SpecZone == InitZone /\ [][NextZone]_vars

----------------------------------------------------------------------------
(* Properties of calculateRiskLevel *)

\* how many violations of V carry severity s
CountOf(V, s) == Cardinality({i \in 1..Len(V) : V[i].severity = s})

\* the sum over V of weight(severity), weight as the README gives it
WeightedSum(V) ==
  10 * CountOf(V, "HIGH") + 5 * CountOf(V, "MEDIUM") + 2 * CountOf(V, "LOW")

\* C1: for every violation list the returned score is the sum of the
\* weights HIGH=10, MEDIUM=5, LOW=2 of its violations, and the empty list
\* yields exactly {level: LOW, score: 0}.
C1_ScoreIsWeightedSum ==
  risk # NoValue =>
    /\ risk.score = WeightedSum(violations)
    /\ violations = <<>> => risk = [level |-> "LOW", score |-> 0]

\* a list holding each severity once has been scored (10 + 5 + 2)
C1_Witness ==
  /\ risk # NoValue
  /\ Len(violations) = 3
  /\ \A s \in Severities : CountOf(violations, s) = 1
  /\ risk.score = 17

\* C2: the returned level is HIGH exactly when the score is >= 10, MEDIUM
\* exactly when 5 <= score < 10 and LOW exactly when score < 5; a single
\* HIGH gives {HIGH, 10}, one MEDIUM plus one LOW gives {MEDIUM, 7}.
C2_LevelByThreshold ==
  risk # NoValue =>
    /\ risk.level \in {"HIGH", "MEDIUM", "LOW"}
    /\ risk.level = "HIGH" <=> risk.score >= 10
    /\ risk.level = "MEDIUM" <=> (5 <= risk.score /\ risk.score < 10)
    /\ risk.level = "LOW" <=> risk.score < 5
    /\ violations = <<[severity |-> "HIGH"]>>
         => risk = [level |-> "HIGH", score |-> 10]
    /\ (/\ Len(violations) = 2
        /\ CountOf(violations, "MEDIUM") = 1
        /\ CountOf(violations, "LOW") = 1)
         => risk = [level |-> "MEDIUM", score |-> 7]

\* one MEDIUM and one LOW violation have been scored
C2_Witness ==
  /\ risk # NoValue
  /\ violations = <<[severity |-> "MEDIUM"], [severity |-> "LOW"]>>
  /\ risk.level = "MEDIUM"

----------------------------------------------------------------------------
(* Properties of checkProtectedZone *)

\* the violations of one type, in the order of the list
ViolationsOfType(V, t) == SelectSeq(V, LAMBDA v : v.type = t)

\* the features of a layer as the point test sees them
FeaturesIn(layers, layer) ==
  IF layer \in DOMAIN layers /\ "features" \in DOMAIN layers[layer]
  THEN layers[layer].features ELSE <<>>

\* the indexes of the features of a layer that satisfy its predicate
MatchingIn(layers, layer) ==
  {i \in 1..Len(FeaturesIn(layers, layer)) :
     Matches(layer, FeaturesIn(layers, layer)[i])}

\* what a layer is to contribute: the violation of its first matching feature
ExpectedOf(layers, layer) ==
  IF MatchingIn(layers, layer) = {} THEN <<>>
  ELSE LET first == CHOOSE i \in MatchingIn(layers, layer) :
                      \A j \in MatchingIn(layers, layer) : i <= j
       IN  <<ViolationFor(layer, FeaturesIn(layers, layer)[first])>>

\* the layers mapping with every layer but one taken away
OnlyLayer(layers, layer) ==
  [l \in DOMAIN layers \cap {layer} |-> layers[l]]

\* C3: each of the five layers adds at most one violation, the one of the
\* first feature in the layer's order that satisfies the layer's predicate;
\* the result holds at most five violations, and what a layer contributes
\* is what it contributes when every other layer is taken away.
C3_FirstMatchPerLayer ==
  zoneCheck # NoValue =>
    /\ Len(zoneCheck.violations) <= 5
    /\ \A l \in LayerNames :
         /\ Len(ViolationsOfType(zoneCheck.violations, TypeOf(l))) <= 1
         /\ ViolationsOfType(zoneCheck.violations, TypeOf(l))
              = ExpectedOf(gisLayers, l)
         /\ ViolationsOfType(
              checkProtectedZone(OnlyLayer(gisLayers, l)).violations, TypeOf(l))
              = ViolationsOfType(zoneCheck.violations, TypeOf(l))

\* a layer with two matching features that would be reported differently
\* has been checked together with another layer that also matched
C3_Witness ==
  /\ zoneCheck # NoValue
  /\ Len(zoneCheck.violations) >= 2
  /\ \E l \in LayerNames : \E i, j \in MatchingIn(gisLayers, l) :
       /\ i < j
       /\ ViolationFor(l, FeaturesIn(gisLayers, l)[i])
            # ViolationFor(l, FeaturesIn(gisLayers, l)[j])

\* C4: checkProtectedZone raises nothing whatever layers are absent, lack
\* a features list or hold an empty one; such a layer contributes no
\* violation and its boolean stays false, and the other layers are
\* evaluated as usual.
C4_MissingLayersAreSilent ==
  zoneCheck # NoValue =>
    /\ zoneCheck.error = "none"
    /\ \A l \in LayerNames :
         IF FeaturesIn(gisLayers, l) = <<>>
         THEN /\ zoneCheck[FlagOf(l)] = FALSE
              /\ ViolationsOfType(zoneCheck.violations, TypeOf(l)) = <<>>
         ELSE /\ zoneCheck[FlagOf(l)] = (MatchingIn(gisLayers, l) # {})
              /\ ViolationsOfType(zoneCheck.violations, TypeOf(l))
                   = ExpectedOf(gisLayers, l)

\* a check has run with one layer absent, one without a features list, one
\* with an empty list and one that matched
C4_Witness ==
  /\ zoneCheck # NoValue
  /\ \E l \in LayerNames : l \notin DOMAIN gisLayers
  /\ \E l \in DOMAIN gisLayers : "features" \notin DOMAIN gisLayers[l]
  /\ \E l \in DOMAIN gisLayers :
       "features" \in DOMAIN gisLayers[l] /\ gisLayers[l].features = <<>>
  /\ \E l \in LayerNames : zoneCheck[FlagOf(l)]

\* the smallest of a non-empty set of numbers
Min(S) == CHOOSE x \in S : \A y \in S : x <= y

\* the distance from the point to the channels layer: to its nearest line
ChannelDistance(layers) ==
  Min({FeaturesIn(layers, "channels")[i].distance :
         i \in 1..Len(FeaturesIn(layers, "channels"))})

\* C5: for a point that hits no other layer and lies d < 100 m from a
\* channel line, the result is exactly one 'Channel Proximity' violation,
\* HIGH if d < 50 and MEDIUM if 50 <= d < 100, labelled with d rounded to
\* whole metres and 'm'; 100 m or more from every channel gives none; for
\* every number and order of channel features.
C5_ChannelSeverityByDistance ==
  (/\ zoneCheck # NoValue
   /\ FeaturesIn(gisLayers, "channels") # <<>>
   /\ \A l \in LayerNames \ {"channels"} : MatchingIn(gisLayers, l) = {})
  => LET d == ChannelDistance(gisLayers)
     IN  IF d < 1000
         THEN zoneCheck.violations =
                <<[type |-> "Channel Proximity",
                   feature |-> "Drainage Channel",
                   severity |-> IF d < 500 THEN "HIGH" ELSE "MEDIUM",
                   distance |-> [metres |-> MathRound(d), unit |-> "m"]]>>
         ELSE zoneCheck.violations = <<>>

\* C6: the README's categories: HIGH when the site encroaches on a
\* waterbody, a waterway buffer or a flood-risk zone; MEDIUM when its only
\* violations are green-belt encroachment and/or channel proximity at
\* 50-100 m; LOW exactly when no violation was found.
C6_ReadmeCategories ==
  (zoneCheck # NoValue /\ risk # NoValue) =>
    /\ (zoneCheck.inWaterbody \/ zoneCheck.inWaterway
        \/ zoneCheck.inVulnerableZone) => risk.level = "HIGH"
    /\ (/\ zoneCheck.violations # <<>>
        /\ \A i \in 1..Len(zoneCheck.violations) :
             LET v == zoneCheck.violations[i]
             IN  \/ v.type = "Green Belt Encroachment"
                 \/ v.type = "Channel Proximity" /\ v.severity = "MEDIUM")
         => risk.level = "MEDIUM"
    /\ risk.level = "LOW" <=> zoneCheck.violations = <<>>

----------------------------------------------------------------------------
(* Properties of processDetectedSite *)

\* C19: the site processDetectedSite returns has status 'PENDING', the
\* violations checkProtectedZone found, riskLevel and riskScore of exactly
\* those violations, every field of the change as it was, the district of
\* the change's coordinates and the change's image references and
\* coordinates as evidence; nothing is written to storage.
C19_ProcessDetectedSiteComposes ==
  site # NoValue =>
    /\ site.status = "PENDING"
    /\ site.violations = zoneCheck.violations
    /\ site.riskScore = WeightedSum(site.violations)
    /\ site.riskLevel = risk.level /\ site.riskScore = risk.score
    /\ site.riskLevel = IF site.riskScore >= 10 THEN "HIGH"
                        ELSE IF site.riskScore >= 5 THEN "MEDIUM" ELSE "LOW"
    /\ \A k \in DOMAIN change : site[k] = change[k]
    /\ DOMAIN site = DOMAIN change
         \cup {"riskLevel", "riskScore", "violations", "district", "status",
               "reportedDate", "evidence"}
    /\ site.district = getDistrict(change.coordinates.lat,
                                   change.coordinates.lng)
    /\ site.evidence = [beforeImage |-> change.beforeImage,
                        afterImage |-> change.afterImage,
                        coordinates |-> change.coordinates]
    /\ localStorage = NoItem

\* a change with a bbox was assembled into a site with two violations
C19_Witness ==
  /\ site # NoValue
  /\ "bbox" \in DOMAIN site
  /\ Len(site.violations) = 2
  /\ site.district = "Hyderabad"

----------------------------------------------------------------------------
(* Properties of detectChanges and of the singleton mlModelService *)

\* the activations of detectChanges
DetectChangesRuns ==
  {a \in BagToSet(calls) :
     a.call # NoValue /\ a.call.kind = "detectChanges"}

\* C7: when the change model's output yields zero regions, detectChanges
\* returns {hasChange: false, confidence: 0.95, changes: []} and the run
\* never invokes detectBuildingsWithMaskRCNN nor the detection model's
\* predict.
C7_NoRegionsEarlyExit ==
  \A r \in DetectChangesRuns :
    r.frame.regions = 0 =>
      /\ r.pc = "done"
      /\ r.result # NoValue
      /\ r.result.hasChange = FALSE
      /\ r.result.confidence = 95
      /\ r.result.changes = <<>>
      /\ r.frame.detectBuildingsCalls = 0
      /\ r.frame.maskRCNNPredictCalls = 0

\* a run whose mask was scanned without error and held no region returned
C7_Witness ==
  \E r \in DetectChangesRuns :
    /\ r.frame.regions = 0
    /\ r.frame.failedStep = "none"
    /\ r.pc = "done"

\* C8: a detectChanges run in which a step of change inference, building
\* inference or georeferencing raised never returns a result labelled
\* 'UNet + Mask R-CNN': what it returns carries the fallback label.
C8_FailedRunReturnsFallbackLabel ==
  \A r \in DetectChangesRuns :
    (r.frame.failedStep # "none" /\ r.result # NoValue)
      => r.result.method = FallbackLabel

\* C9: every result of the fallback path holds 0 to 3 changes, each tagged
\* detectionMethod 'Fallback', and the label 'Fallback (No ML models
\* available)', which no result of the inference path carries.
C9_FallbackResultsAreLabelled ==
  \A r \in DetectChangesRuns :
    (r.result # NoValue /\ r.frame.path = "fallback") =>
      /\ Len(r.result.changes) \in 0..3
      /\ \A i \in 1..Len(r.result.changes) :
           r.result.changes[i].detectionMethod = "Fallback"
      /\ r.result.method = "Fallback (No ML models available)"
      /\ \A q \in DetectChangesRuns :
           (q.result # NoValue /\ q.frame.path = "inference")
             => q.result.method # r.result.method

\* one run returned three synthetic changes and another returned inferred
\* changes
C9_Witness ==
  \E r, q \in DetectChangesRuns :
    /\ r.result # NoValue /\ r.frame.path = "fallback"
    /\ Len(r.result.changes) = 3
    /\ q.result # NoValue /\ q.frame.path = "inference"
    /\ q.result.hasChange

\* C10: whatever calls are made and however they interleave,
\* tf.loadLayersModel and tf.loadGraphModel are each called exactly once:
\* not before the first call, once from then on, and a caller that waits for
\* the models waits on the recorded promise.
C10_OneLoadPerSlot ==
  /\ tfLoads.loadLayersModelCalls <= 1
  /\ tfLoads.loadGraphModelCalls <= 1
  /\ (\E r \in BagToSet(calls) : r.pc # "idle") =>
       /\ tfLoads.loadLayersModelCalls = 1
       /\ tfLoads.loadGraphModelCalls = 1
  /\ \A r \in BagToSet(calls) :
       r.pc = "awaitLoad" => mlModelService.loadingPromise # "null"

\* the callers suspended at `await this.loadModels()`
AwaitingLoad ==
  [a \in {b \in BagToSet(calls) : b.pc = "awaitLoad"} |-> CopiesIn(a, calls)]

\* two callers wait for the models while the loads are in flight
C10_Witness ==
  /\ BagCardinality(AwaitingLoad) >= 2
  /\ tfLoads.unet = "inflight"
  /\ tfLoads.maskRCNN = "inflight"
  /\ tfLoads.loadLayersModelCalls = 1

\* C11: a failed fetch of a model never leaves loading: once the loads have
\* settled the slot holds the model or its placeholder; whenever loadModels
\* has completed (its promise is fulfilled, a caller has resumed from it)
\* both slots are non-null and modelsLoaded is true; no call is rejected by
\* loading and no run reads predict from an empty slot.
C11_LoadFailureGivesPlaceholder ==
  /\ tfLoads.unet = "settled" => mlModelService.unetModel # "null"
  /\ tfLoads.maskRCNN = "settled" => mlModelService.maskRCNNModel # "null"
  /\ (\/ mlModelService.loadingPromise = "fulfilled"
      \/ mlModelService.modelsLoaded
      \/ \E r \in BagToSet(calls) : r.pc \notin {"idle", "awaitLoad"})
     => /\ mlModelService.modelsLoaded
        /\ mlModelService.unetModel # "null"
        /\ mlModelService.maskRCNNModel # "null"
  /\ \A r \in BagToSet(calls) :
       /\ ~r.frame.predictOnEmptySlot
       /\ (r.call # NoValue /\ r.call.kind = "loadModels") => r.pc # "rejected"

\* both fetches failed, loadModels returned to its caller, and a run has
\* called predict of both placeholders
C11_Witness ==
  /\ mlModelService.unetModel = "placeholder"
  /\ mlModelService.maskRCNNModel = "placeholder"
  /\ \E r \in BagToSet(calls) :
       r.call # NoValue /\ r.call.kind = "loadModels" /\ r.pc = "done"
  /\ \E r \in BagToSet(calls) : r.frame.maskRCNNPredictCalls = 1


\* C24: every detectChanges run returns a result to its caller in the end,
\* by the normal path, the early exit or the fallback, when every load,
\* image load, data read and timer it awaits settles; the fallback never
\* raises
C24_EveryRunReturns ==
  <>[](\A a \in BagToSet(calls) :
         (a.call # NoValue /\ a.call.kind = "detectChanges") =>
           (a.pc = "done" /\ a.result # NoValue))

----------------------------------------------------------------------------
\* the variables of checkProtectedZone and calculateRiskLevel, not running
IdleGIS ==
  /\ violations = <<>>
  /\ risk = NoValue
  /\ gisLayers = NoLayers
  /\ zoneCheck = NoValue
  /\ IdleSite

(* SpecDistrict: getDistrict on every point of the grid *)

InitDistrict ==
  /\ point \in Points
  /\ district = NoValue
  /\ IdleGIS /\ IdlePipeline /\ IdleRegions /\ IdleStorage /\ IdleImagery
  /\ IdleStage

GetDistrict ==
  /\ district = NoValue
  /\ district' = [name |-> getDistrict(point.lat, point.lng)]
  /\ UNCHANGED <<point, varsGIS, varsPipeline, varsRegions, varsStorage,
                 varsImagery,
                 varsStage>>

NextDistrict == GetDistrict

SpecDistrict == InitDistrict /\ [][NextDistrict]_vars

\* the indexes of the rules whose rectangle holds the point
MatchingRules(p) ==
  {i \in 1..Len(DistrictRules) : RuleMatches(DistrictRules[i], p.lat, p.lng)}

\* C18 as stated: for every point at most one rule matches, so that testing
\* the rules in another order returns the same district; a point matching
\* no rule gets 'Unknown'.
C18_RulesNonOverlapping ==
  district # NoValue =>
    /\ Cardinality(MatchingRules(point)) <= 1
    /\ district.name = FirstMatch(Reversed(DistrictRules), 1, point.lat, point.lng)
    /\ MatchingRules(point) = {} => district.name = "Unknown"

\* C18 amended: the rectangles overlap, and the district returned is that
\* of the first rule, in the order Hyderabad, Medchal, Sangareddy,
\* Vikarabad, Rangareddy, whose rectangle holds the point: Hyderabad
\* wherever its rectangle holds the point, Rangareddy only where no other
\* rule matches; a point matching no rule gets 'Unknown'.
C18_FirstRuleInOrderWins ==
  district # NoValue =>
    /\ MatchingRules(point) = {} <=> district.name = "Unknown"
    /\ \A i \in 1..Len(DistrictRules) :
         district.name = DistrictRules[i].name
           <=> /\ i \in MatchingRules(point)
               /\ \A j \in 1..(i - 1) : j \notin MatchingRules(point)
    /\ 1 \in MatchingRules(point) => district.name = "Hyderabad"
    /\ district.name = "Rangareddy" => MatchingRules(point) = {5}

\* a point inside the Hyderabad rectangle, which the Rangareddy rectangle
\* holds too, has been looked up
C18_Witness ==
  /\ district # NoValue
  /\ district.name = "Hyderabad"
  /\ point = [lat |-> 1740, lng |-> 7850]
  /\ MatchingRules(point) = {1, 5}

----------------------------------------------------------------------------
(* gisService.js (api): the stored site list                               *)

\* most sites in storage at the start of SpecStorage
MaxStored == 3

\* most storage operations in a behaviour of SpecStorage
MaxOps == 2

\* latest reading of Date.now()
MaxClock == 1

\* null
Null == [jsType |-> "null"]

\* localStorage.setItem(STORAGE_KEY, JSON.stringify(sites)): the stored
\* string is kept as the list it denotes; a site holds strings, numbers
\* and objects of them, which JSON.parse(JSON.stringify(...)) gives back
setItem(sites) == [item |-> "json", sites |-> sites]

\* getDetectedSites: [] when nothing is stored, else the parsed list
getDetectedSites(storage) ==
  IF storage.item = "null" THEN <<>> ELSE storage.sites

\* sites.findIndex(site => site.id === id), from index i; 0 stands for -1
RECURSIVE findIndex(_, _, _)
findIndex(sites, id, i) ==
  IF i > Len(sites) THEN 0
  ELSE IF sites[i].id = id THEN i
  ELSE findIndex(sites, id, i + 1)

\* { ...sites[index], status, remarks, updatedDate }
Updated(s, status, remarks, now) ==
  [status |-> status, remarks |-> remarks, updatedDate |-> now] @@ s

\* a plausible slip: the update applied to every site that has the id
updateSiteStatusEvery(storage, id, status, remarks, now) ==
  LET sites == getDetectedSites(storage)
      index == findIndex(sites, id, 1)
  IN  IF index = 0 THEN [storage |-> storage, value |-> Null]
      ELSE LET sites1 == [k \in 1..Len(sites) |->
                            IF sites[k].id = id
                            THEN Updated(sites[k], status, remarks, now)
                            ELSE sites[k]]
           IN  [storage |-> setItem(sites1), value |-> sites1[index]]

\* updateSiteStatus: the storage it leaves and the value it returns
updateSiteStatus(storage, id, status, remarks, now) ==
  LET sites == getDetectedSites(storage)
      index == findIndex(sites, id, 1)
  IN  IF index = 0 THEN [storage |-> storage, value |-> Null]
      ELSE LET sites1 == [sites EXCEPT
                            ![index] = Updated(@, status, remarks, now)]
           IN  [storage |-> setItem(sites1), value |-> sites1[index]]

\* deleteSite: sites.filter(site => site.id !== id), stored and returned
deleteSite(storage, id) ==
  LET filtered == SelectSeq(getDetectedSites(storage), LAMBDA x : x.id # id)
  IN  [storage |-> setItem(filtered), value |-> [list |-> filtered]]

\* ids of stored sites: those of buildings repeat from run to run
SiteIds == {<<"building", 0>>, <<"change", 0, 0>>}

\* sites as analyzeSite stores them, told apart by their risk level
StoredSites ==
  [id : SiteIds, riskLevel : {"LOW", "HIGH"}, status : {"PENDING"}]

\* the ids, statuses and remarks callers pass
RequestedIds == SiteIds \cup {<<"change", 0, 1>>}

Statuses == {"VERIFIED", "REJECTED"}

Remarks == {"", "checked"}

(* SpecStorage: status updates and deletions on a stored site list *)

OpsDone == IF returned = NoValue THEN 0 ELSE returned.n

InitStorage ==
  /\ localStorage \in
       {NoItem} \cup {setItem(l) : l \in SeqUpTo(StoredSites, MaxStored) \ {<<>>}}
  /\ returned = NoValue
  /\ clock = 0
  /\ IdleGIS /\ IdlePipeline /\ IdleDistrict /\ IdleRegions /\ IdleImagery
  /\ IdleStage

UpdateSiteStatus(id, status, remarks) ==
  /\ OpsDone < MaxOps
  /\ LET r == updateSiteStatus(localStorage, id, status, remarks, clock)
     IN  /\ localStorage' = r.storage
         /\ returned' = [n |-> OpsDone + 1, op |-> "updateSiteStatus",
                         id |-> id, status |-> status, remarks |-> remarks,
                         now |-> clock, value |-> r.value,
                         before |-> localStorage]
  /\ UNCHANGED <<clock, varsGIS, varsPipeline, varsDistrict, varsRegions,
                 varsImagery,
                 varsStage>>

DeleteSite(id) ==
  /\ OpsDone < MaxOps
  /\ LET r == deleteSite(localStorage, id)
     IN  /\ localStorage' = r.storage
         /\ returned' = [n |-> OpsDone + 1, op |-> "deleteSite", id |-> id,
                         value |-> r.value, before |-> localStorage]
  /\ UNCHANGED <<clock, varsGIS, varsPipeline, varsDistrict, varsRegions,
                 varsImagery,
                 varsStage>>

\* time passes between two operations
Tick ==
  /\ clock < MaxClock
  /\ clock' = clock + 1
  /\ UNCHANGED <<localStorage, returned, varsGIS, varsPipeline, varsDistrict,
                 varsRegions, varsImagery,
                 varsStage>>

NextStorage ==
  \/ \E id \in RequestedIds : \E status \in Statuses : \E remarks \in Remarks :
       UpdateSiteStatus(id, status, remarks)
  \/ \E id \in RequestedIds : DeleteSite(id)
  \/ Tick

SpecStorage == InitStorage /\ [][NextStorage]_vars

\* the stored sites that have the id
IndexesOf(sites, id) == {k \in 1..Len(sites) : sites[k].id = id}

\* C16: updateSiteStatus returns null and leaves storage as it was when no
\* stored site has the id; otherwise only status, remarks and updatedDate
\* of the matching site change, its other fields, the other sites and the
\* order stay, and storage then holds the status and remarks of the latest
\* update of that id.
C16_UpdateTouchesOneSite ==
  (returned # NoValue /\ returned.op = "updateSiteStatus") =>
    LET old == getDetectedSites(returned.before)
        new == getDetectedSites(localStorage)
        hits == IndexesOf(old, returned.id)
    IN  IF hits = {}
        THEN returned.value = Null /\ localStorage = returned.before
        ELSE LET m == CHOOSE k \in hits : \A j \in hits : k <= j
             IN  /\ Len(new) = Len(old)
                 /\ \A k \in 1..Len(old) : k # m => new[k] = old[k]
                 /\ \A f \in DOMAIN old[m] \ {"status", "remarks", "updatedDate"} :
                      f \in DOMAIN new[m] /\ new[m][f] = old[m][f]
                 /\ DOMAIN new[m]
                      = DOMAIN old[m] \cup {"status", "remarks", "updatedDate"}
                 /\ new[m].status = returned.status
                 /\ new[m].remarks = returned.remarks
                 /\ new[m].updatedDate = returned.now
                 /\ returned.value = new[m]

\* a second update of an id has replaced the status and remarks of the
\* first, with another site of the same id and a third site in storage
C16_Witness ==
  /\ returned # NoValue
  /\ returned.op = "updateSiteStatus"
  /\ returned.n = 2
  /\ LET old == getDetectedSites(returned.before)
     IN  /\ Len(old) = 3
         /\ Cardinality(IndexesOf(old, returned.id)) = 2
         /\ \E k \in IndexesOf(old, returned.id) :
              /\ "remarks" \in DOMAIN old[k]
              /\ old[k].status # returned.status
              /\ old[k].remarks # returned.remarks

----------------------------------------------------------------------------
(* satelliteService.js: getStaticMapImageUrl and getMapTilerSatelliteImage *)

\* tiles of a composite (tilesX * tilesY in the source)
NumTiles == 3

Tiles == 1..NumTiles

\* a tile of the MapTiler composite:
\*   img     the Image: "loading", "loaded" or "failed" (img.complete is
\*           img # "loading")
\*   timer   the 5 s timer of the tile: "armed" or "fired"
\*   paint   what the tile's place on the canvas holds: "background", the
\*           "tile" (ctx.drawImage) or the "grey" placeholder (ctx.fillRect)
\*   settled the tile's promise has been resolved
NewTile ==
  [img |-> "loading", timer |-> "armed", paint |-> "background",
   settled |-> FALSE]

\* the arguments a call is made with, as the code reads them: the point is
\* inside the Hyderabad rectangle or not, REACT_APP_MAPTILER_KEY is set or not
ImageryCalls ==
  {[pc |-> "called", inRegion |-> r, apiKey |-> k] :
     r \in BOOLEAN, k \in BOOLEAN}

\* getStaticMapImageUrl returns url
Return(im, url) == [im EXCEPT !.pc = "done"] @@ [result |-> url]

\* getMapTilerSatelliteImage returned null, or something that is no data
\* URL: getStaticMapImageUrl goes on to createEsriComposite
UseEsri(im) == [im EXCEPT !.pc = "awaitEsri"]

\* getMapTilerSatelliteImage from the await of the race on
AfterRace(im) ==
  IF im.loadedCount > 0
  THEN Return(im, [kind |-> "data:image", source |-> "MapTiler",
                   tiles |-> [t \in Tiles |-> im.tiles[t].paint]])
  ELSE IF im.apiKey THEN [im EXCEPT !.pc = "awaitStaticMap"]
  ELSE UseEsri(im)

\* after a callback of a tile: once every tile's promise is resolved the
\* race is won by Promise.all and the function resumes before any other
\* event is handled
AfterTileEvent(im) ==
  IF \A t \in Tiles : im.tiles[t].settled THEN AfterRace(im) ELSE im

\* img.onerror of tile t
OnError(im, t) ==
  [im EXCEPT !.tiles[t].paint = "grey", !.tiles[t].settled = TRUE,
             !.loadedCount = @ + 1]

\* img.onload of tile t; drawImage may raise, which the handler catches
OnLoad(im, t, drawOk) ==
  IF drawOk
  THEN [im EXCEPT !.tiles[t].paint = "tile", !.tiles[t].settled = TRUE,
                  !.loadedCount = @ + 1]
  ELSE [im EXCEPT !.tiles[t].settled = TRUE]

(* SpecImagery: one call of getStaticMapImageUrl *)

InitImagery ==
  /\ imagery \in ImageryCalls
  /\ IdleGIS /\ IdlePipeline /\ IdleDistrict /\ IdleRegions /\ IdleStorage
  /\ IdleStage

ImageryStep(im) ==
  /\ imagery' = im
  /\ UNCHANGED <<varsGIS, varsPipeline, varsDistrict, varsRegions, varsStorage,
                 varsStage>>

\* getStaticMapImageUrl up to the await in getMapTilerSatelliteImage: null
\* outside the rectangle, else every tile requested and its timer armed
StartMapTiler ==
  /\ imagery.pc = "called"
  /\ IF ~imagery.inRegion
     THEN ImageryStep(UseEsri(imagery))
     ELSE ImageryStep([imagery EXCEPT !.pc = "awaitTiles"]
                      @@ [tiles |-> [t \in Tiles |-> NewTile],
                          loadedCount |-> 0])

\* the load event of tile t
TileLoads(t, drawOk) ==
  /\ imagery.pc = "awaitTiles"
  /\ imagery.tiles[t].img = "loading"
  /\ ImageryStep(AfterTileEvent(
       OnLoad([imagery EXCEPT !.tiles[t].img = "loaded"], t, drawOk)))

\* the error event of tile t
TileFails(t) ==
  /\ imagery.pc = "awaitTiles"
  /\ imagery.tiles[t].img = "loading"
  /\ ImageryStep(AfterTileEvent(
       OnError([imagery EXCEPT !.tiles[t].img = "failed"], t)))

\* the 5 s timer of tile t, after those of the tiles requested before it
TileTimerFires(t) ==
  /\ imagery.pc = "awaitTiles"
  /\ imagery.tiles[t].timer = "armed"
  /\ \A u \in 1..(t - 1) : imagery.tiles[u].timer = "fired"
  /\ LET im == [imagery EXCEPT !.tiles[t].timer = "fired"]
     IN  IF imagery.tiles[t].img = "loading"
         THEN ImageryStep(AfterTileEvent(OnError(im, t)))
         ELSE ImageryStep(im)

\* the fetch of the static map settles: its blob: URL is no data URL, and
\* a failure gives null
StaticMapSettles(ok) ==
  /\ imagery.pc = "awaitStaticMap"
  /\ ImageryStep(UseEsri(imagery))

\* createEsriComposite settles: its composite, its placeholder image, or
\* an exception, after which the single-tile URL is returned
EsriSettles(outcome) ==
  /\ imagery.pc = "awaitEsri"
  /\ ImageryStep(Return(imagery,
       IF outcome = "throws"
       THEN [kind |-> "https:", source |-> "Esri tile"]
       ELSE [kind |-> "data:image", source |-> "Esri", image |-> outcome]))

NextImagery ==
  \/ StartMapTiler
  \/ \E t \in Tiles : \E drawOk \in BOOLEAN : TileLoads(t, drawOk)
  \/ \E t \in Tiles : TileFails(t)
  \/ \E t \in Tiles : TileTimerFires(t)
  \/ \E ok \in BOOLEAN : StaticMapSettles(ok)
  \/ \E outcome \in {"composite", "placeholder", "throws"} : EsriSettles(outcome)

SpecImagery == InitImagery /\ [][NextImagery]_vars

\* C17: for a point in the Hyderabad rectangle, when every MapTiler tile
\* request failed or timed out, getStaticMapImageUrl returns the Esri
\* composite and no image composed from failed MapTiler tiles.
C17_FailedMapTilerFallsBackToEsri ==
  (/\ imagery.pc = "done"
   /\ imagery.inRegion
   /\ \A t \in Tiles : imagery.tiles[t].img # "loaded")
  => /\ imagery.result.source = "Esri"
     /\ imagery.result.kind = "data:image"

----------------------------------------------------------------------------
(* mlModelService.js: findChangeRegions and floodFill                      *)

\* width and height of the masks that hold one solid square
MaskWidth == 16

MaskHeight == 20

\* const sampleRate = 4
sampleRate == 4

\* const maxPixels = 1000
maxPixels == 1000

\* if (region.pixels.length >= 10)
minPixels == 10

\* regions.slice(0, 20)
maxReturned == 20

\* A mask is its width, its height and the rectangles whose union is its
\* foreground; maskData holds width * height values, 1 on the foreground
Rect(x1, y1, x2, y2) == [x1 |-> x1, y1 |-> y1, x2 |-> x2, y2 |-> y2]

Mask(w, h, rects) == [width |-> w, height |-> h, rects |-> rects]

\* maskData[y * width + x] > 0.5, for x and y inside the mask
Foreground(m, x, y) ==
  \E r \in m.rects : r.x1 <= x /\ x <= r.x2 /\ r.y1 <= y /\ y <= r.y2

\* the all-zero mask and every solid square of a MaskWidth x MaskHeight mask
SquareMasks ==
  {Mask(MaskWidth, MaskHeight, {})}
  \cup {Mask(MaskWidth, MaskHeight, {Rect(x, y, x + d, y + d)}) :
          x \in 0..(MaskWidth - 1), y \in 0..(MaskHeight - 1),
          d \in 0..(MaskWidth - 1)}

\* masks that reach the caps: a solid square of 33 x 33 sample positions,
\* and 22 separate rows of 9 sample positions each
CapMasks ==
  {Mask(132, 130, {Rect(0, 0, 129, 129)}),
   Mask(33, 170, {Rect(0, 8 * k, 32, 8 * k) : k \in 0..21})}

\* masks whose foreground is no square: a cross whose arms reach left of
\* and below its topmost sample, and two squares that touch at a corner
ShapeMasks ==
  {Mask(24, 22, {Rect(8, 0, 8, 20), Rect(0, 8, 20, 8)}),
   Mask(26, 25, {Rect(0, 0, 12, 12), Rect(13, 13, 24, 24)})}

Masks ==
  {m \in SquareMasks :
     \A r \in m.rects : r.x2 < m.width /\ r.y2 < m.height}
  \cup CapMasks \cup ShapeMasks

\* the locals of findChangeRegions at the start of its loops
NewExtractor ==
  [pc |-> "scan", x |-> 0, y |-> 0, regions |-> <<>>, visited |-> {},
   region |-> NoValue, stack |-> <<>>]

\* a plausible slip: every region is returned
SliceAll(regions) == regions

\* regions.slice(0, 20)
Slice(regions) ==
  SubSeq(regions, 1, IF Len(regions) < maxReturned THEN Len(regions)
                     ELSE maxReturned)

\* the loop headers `x += sampleRate` and `y += sampleRate`: the next scan
\* position, or the return when the loops are over
Advance(m, e) ==
  LET e1 == [e EXCEPT !.region = NoValue, !.stack = <<>>]
  IN  IF e.x + sampleRate < m.width
      THEN [e1 EXCEPT !.pc = "scan", !.x = e.x + sampleRate]
      ELSE IF e.y + sampleRate < m.height
      THEN [e1 EXCEPT !.pc = "scan", !.x = 0, !.y = e.y + sampleRate]
      ELSE [e1 EXCEPT !.pc = "done"] @@ [result |-> Slice(e.regions)]

\* the body of the scan loops at (x, y): a foreground sample that is not
\* visited starts a region and a flood fill
scanStep(m, e) ==
  LET idx == e.y * m.width + e.x
  IN  IF /\ idx < m.width * m.height
         /\ Foreground(m, e.x, e.y)
         /\ idx \notin e.visited
      THEN [e EXCEPT !.pc = "fill",
                     !.region = [id |-> Len(e.regions),
                                 pixels |-> <<<<e.x, e.y>>>>,
                                 bbox |-> [x |-> e.x, y |-> e.y,
                                           x2 |-> e.x, y2 |-> e.y]],
                     !.stack = <<<<e.x, e.y>>>>]
      ELSE Advance(m, e)

\* a plausible slip: the neighbours one pixel away, whatever the sample rate
NeighboursAdjacent(x, y, rate) ==
  <<<<x + 1, y>>, <<x - 1, y>>, <<x, y + 1>>, <<x, y - 1>>>>

\* stack.push(...) of floodFill
Neighbours(x, y, rate) ==
  <<<<x + rate, y>>, <<x - rate, y>>, <<x, y + rate>>, <<x, y - rate>>>>

SmallerOf(a, b) == IF a <= b THEN a ELSE b

\* a plausible slip: the far corner of the bounding box is never moved
LargerOfKept(a, b) == a

LargerOf(a, b) == IF a >= b THEN a ELSE b

\* one turn of the while loop of floodFill, or, when its condition fails,
\* the return to findChangeRegions, which keeps the region if it holds
\* minPixels entries and goes on scanning
floodFillStep(m, e) ==
  IF Len(e.stack) > 0 /\ Len(e.region.pixels) < maxPixels
  THEN LET top == e.stack[Len(e.stack)]
           rest == SubSeq(e.stack, 1, Len(e.stack) - 1)
           x == top[1]
           y == top[2]
           idx == y * m.width + x
       IN  IF \/ x < 0 \/ x >= m.width \/ y < 0 \/ y >= m.height
              \/ idx >= m.width * m.height
              \/ idx \in e.visited
              \/ ~Foreground(m, x, y)
           THEN [e EXCEPT !.stack = rest]
           ELSE [e EXCEPT
                   !.visited = @ \cup {idx},
                   !.region.pixels = Append(@, <<x, y>>),
                   !.region.bbox =
                      [x |-> SmallerOf(@.x, x), y |-> SmallerOf(@.y, y),
                       x2 |-> LargerOf(@.x2, x), y2 |-> LargerOf(@.y2, y)],
                   !.stack = rest \o Neighbours(x, y, sampleRate)]
  ELSE Advance(m, IF Len(e.region.pixels) >= minPixels
                  THEN [e EXCEPT !.regions = Append(@, e.region)]
                  ELSE e)

(* SpecRegions: findChangeRegions on one mask, a loop turn at a time *)

InitRegions ==
  /\ mask \in Masks
  /\ extractor = NewExtractor
  /\ IdleGIS /\ IdlePipeline /\ IdleDistrict /\ IdleStorage /\ IdleImagery
  /\ IdleStage

ScanStep ==
  /\ extractor.pc = "scan"
  /\ extractor' = scanStep(mask, extractor)
  /\ UNCHANGED <<mask, varsGIS, varsPipeline, varsDistrict, varsStorage,
                 varsImagery,
                 varsStage>>

FloodFillStep ==
  /\ extractor.pc = "fill"
  /\ extractor' = floodFillStep(mask, extractor)
  /\ UNCHANGED <<mask, varsGIS, varsPipeline, varsDistrict, varsStorage,
                 varsImagery,
                 varsStage>>

NextRegions == ScanStep \/ FloodFillStep

SpecRegions == InitRegions /\ [][NextRegions]_vars

(* Properties of findChangeRegions *)

\* the sample positions of the scan that lie on the foreground of a mask
SamplesOf(m) ==
  {<<x, y>> \in
     {sampleRate * i : i \in 0..((m.width - 1) \div sampleRate)}
     \X {sampleRate * j : j \in 0..((m.height - 1) \div sampleRate)} :
     Foreground(m, x, y)}

\* the mask holds one solid square and nothing else
IsSquare(m) ==
  /\ Cardinality(m.rects) = 1
  /\ \A r \in m.rects : r.x2 - r.x1 = r.y2 - r.y1

\* the extent of the sample positions on the foreground
SampleExtent(m) ==
  LET S == SamplesOf(m)
  IN  [x  |-> CHOOSE a \in {p[1] : p \in S} : \A p \in S : a <= p[1],
       y  |-> CHOOSE a \in {p[2] : p \in S} : \A p \in S : a <= p[2],
       x2 |-> CHOOSE a \in {p[1] : p \in S} : \A p \in S : a >= p[1],
       y2 |-> CHOOSE a \in {p[2] : p \in S} : \A p \in S : a >= p[2]]

\* the extent of the one square of the mask
SquareExtent(m) ==
  LET r == CHOOSE r \in m.rects : TRUE
  IN  [x |-> r.x1, y |-> r.y1, x2 |-> r.x2, y2 |-> r.y2]

\* C15: on a mask holding one solid square with at least the minimum number
\* of sample pixels, findChangeRegions returns exactly one region whose
\* bounding box equals the square's extent, for every position and size; on
\* an all-zero mask it returns the empty list
C15_OneRegionWithSquareExtent ==
  extractor.pc = "done" =>
    /\ mask.rects = {} => extractor.result = <<>>
    /\ (IsSquare(mask) /\ Cardinality(SamplesOf(mask)) >= minPixels) =>
         /\ Len(extractor.result) = 1
         /\ extractor.result[1].bbox = SquareExtent(mask)

\* C15 amended: on a mask holding one solid square with at least minPixels
\* and fewer than maxPixels sample positions, findChangeRegions returns
\* exactly one region, whose bounding box is the extent of the sample
\* positions inside the square (each edge on a multiple of sampleRate, at
\* most sampleRate - 1 inside the square's edge); a square with maxPixels
\* sample positions or more has its first region cut at maxPixels entries,
\* short of the square; on an all-zero mask the result is the empty list
C15_OneRegionWithSampleExtent ==
  extractor.pc = "done" =>
    /\ mask.rects = {} => extractor.result = <<>>
    /\ (IsSquare(mask) /\ Cardinality(SamplesOf(mask)) >= minPixels) =>
         IF Cardinality(SamplesOf(mask)) < maxPixels
         THEN /\ Len(extractor.result) = 1
              /\ extractor.result[1].bbox = SampleExtent(mask)
              /\ LET b == extractor.result[1].bbox
                     q == SquareExtent(mask)
                 IN  /\ b.x \in q.x..(q.x + sampleRate - 1)
                     /\ b.y \in q.y..(q.y + sampleRate - 1)
                     /\ b.x2 \in (q.x2 - sampleRate + 1)..q.x2
                     /\ b.y2 \in (q.y2 - sampleRate + 1)..q.y2
         ELSE /\ Len(extractor.result) >= 1
              /\ Len(extractor.result[1].pixels) = maxPixels
              /\ Cardinality({extractor.result[1].pixels[k] :
                    k \in 1..maxPixels}) < Cardinality(SamplesOf(mask))

\* C15 witness: the scan of a square that is not aligned with the sample
\* positions has ended with one region
C15_Witness ==
  /\ extractor.pc = "done"
  /\ IsSquare(mask)
  /\ Cardinality(SamplesOf(mask)) >= minPixels
  /\ Len(extractor.result) = 1
  /\ extractor.result[1].bbox # SquareExtent(mask)

\* (x, y) comes before (u, v) in the row-major scan
ScannedBefore(p, q) == p[2] < q[2] \/ (p[2] = q[2] /\ p[1] < q[1])

\* C20: findChangeRegions returns at most maxReturned regions, they are the
\* first accepted regions in row-major scan order, unsorted, and every
\* region holds at least one and at most maxPixels pixel entries
C20_FirstRegionsInScanOrder ==
  /\ \A i \in 1..Len(extractor.regions) :
       /\ Len(extractor.regions[i].pixels) \in 1..maxPixels
       /\ \A j \in (i + 1)..Len(extractor.regions) :
            ScannedBefore(extractor.regions[i].pixels[1],
                          extractor.regions[j].pixels[1])
  /\ extractor.pc = "done" =>
       /\ Len(extractor.result) <= maxReturned
       /\ Len(extractor.result) <= Len(extractor.regions)
       /\ Len(extractor.regions) <= maxReturned =>
            extractor.result = extractor.regions
       /\ \A i \in 1..Len(extractor.result) :
            /\ extractor.result[i] = extractor.regions[i]
            /\ extractor.result[i].id = i - 1
            /\ Len(extractor.result[i].pixels) \in 1..maxPixels
       /\ Len(extractor.regions) > maxReturned =>
            Len(extractor.result) = maxReturned

\* C20 witness: a scan that accepted more than maxReturned regions has
\* returned
C20_Witness ==
  /\ extractor.pc = "done"
  /\ Len(extractor.regions) > maxReturned
  /\ Len(extractor.result) = maxReturned


\* the entries of a region's pixel list, as a set
PixelsOf(region) == {region.pixels[k] : k \in 1..Len(region.pixels)}

\* C21: every returned region's pixel list holds no coordinate twice and
\* at least minPixels distinct sample positions, so that a stride-connected
\* cluster of fewer than minPixels foreground samples is never returned
C21_RegionsHoldTenDistinctSamples ==
  extractor.pc = "done" =>
    \A i \in 1..Len(extractor.result) :
      LET region == extractor.result[i]
      IN  /\ Cardinality(PixelsOf(region)) = Len(region.pixels)
          /\ Cardinality(PixelsOf(region)) >= minPixels

\* C30: every pixel of a returned region is a foreground sample position
\* inside the mask and inside the region's bounding box, and no sample
\* position belongs to two regions, also after a flood fill was cut at
\* maxPixels entries
C30_RegionPixelsInBoxAndDisjoint ==
  extractor.pc = "done" =>
    /\ \A i \in 1..Len(extractor.result) :
         LET region == extractor.result[i]
         IN  \A p \in PixelsOf(region) :
               /\ p[1] \in 0..(mask.width - 1)
               /\ p[2] \in 0..(mask.height - 1)
               /\ p[1] % sampleRate = 0
               /\ p[2] % sampleRate = 0
               /\ Foreground(mask, p[1], p[2])
               /\ region.bbox.x <= p[1] /\ p[1] <= region.bbox.x2
               /\ region.bbox.y <= p[2] /\ p[2] <= region.bbox.y2
    /\ \A i, j \in 1..Len(extractor.result) :
         i # j => PixelsOf(extractor.result[i])
                    \cap PixelsOf(extractor.result[j]) = {}

\* C30 witness: a flood fill was cut at maxPixels entries and the rest of
\* the cluster was returned as a second region
C30_Witness ==
  /\ extractor.pc = "done"
  /\ Cardinality(mask.rects) = 1
  /\ Len(extractor.result) >= 2
  /\ Len(extractor.result[1].pixels) = maxPixels

----------------------------------------------------------------------------
(* gisService.js: parseCoordinates and analyzeSite;                        *)
(* satelliteService: isWithinHyderabadRegion, getHistoricalImagery         *)

\* A coordinates string is the list of its comma-separated parts after
\* trim(); a part is what parseFloat finds in it:
\*   numeric  the part starts with a number
\*   value    that number, in hundredths of a degree
\*   rest     text follows the number
\* The empty string is the empty list.
Part(numeric, value, rest) ==
  [numeric |-> numeric, value |-> value, rest |-> rest]

Num(value) == Part(TRUE, value, FALSE)

\* "17.4,78.5"  "17.4abc,78.5"  "19,78.5"  "0,78.5"  "abc,78.5"  "17.4"
\* "17.4,78.5,3"  ""
CoordinateStrings ==
  {<<Num(1740), Num(7850)>>,
   <<Part(TRUE, 1740, TRUE), Num(7850)>>,
   <<Num(1900), Num(7850)>>,
   <<Num(0), Num(7850)>>,
   <<Part(FALSE, 0, TRUE), Num(7850)>>,
   <<Num(1740)>>,
   <<Num(1740), Num(7850), Num(3)>>,
   <<>>}

\* the historicalDate argument: left out, a date string, a string that is
\* no date
HistoricalDates == {"null", "2016-06-15", "invalid"}

\* a JavaScript number, NaN or null
Number(v) == [is |-> "number", value |-> v]

NaN == [is |-> "NaN", value |-> 0]

NullNumber == [is |-> "null", value |-> 0]

\* parseFloat reads the number a string starts with, and gives NaN when
\* there is none
parseFloat(part) == IF part.numeric THEN Number(part.value) ELSE NaN

parseCoordinates(coordsString) ==
  IF coordsString = <<>> THEN [lat |-> NullNumber, lng |-> NullNumber]
  ELSE IF Len(coordsString) # 2 THEN [lat |-> NullNumber, lng |-> NullNumber]
  ELSE LET lat == parseFloat(coordsString[1])
           lng == parseFloat(coordsString[2])
       IN  IF lat.is = "NaN" \/ lng.is = "NaN"
           THEN [lat |-> NullNumber, lng |-> NullNumber]
           ELSE [lat |-> lat, lng |-> lng]

\* !v for a number, NaN or null
Falsy(v) == v.is # "number" \/ v.value = 0

\* bounds 17.0 .. 18.0 north, 77.5 .. 79.0 east
isWithinHyderabadRegion(lat, lng) ==
  lat >= 1700 /\ lat <= 1800 /\ lng >= 7750 /\ lng <= 7900

\* what loadGISLayers resolves to: every layer a collection, empty when no
\* path gave one; here all empty, or a waterbody that holds the point
EmptyLayers ==
  [l \in LayerNames |-> [type |-> "FeatureCollection", features |-> <<>>]]

LoadedLayers ==
  {EmptyLayers,
   [EmptyLayers EXCEPT !["waterbodies"].features =
      <<[name |-> "A", hit |-> TRUE, distance |-> 0]>>]}

\* the object getHistoricalImagery resolves to
HistoricalImage(date) ==
  [url |-> "before", date |-> IF date = "null" THEN "2006-06-15" ELSE date,
   year |-> "2006", yearsBack |-> "since 2006"]

\* the object getCurrentImagery resolves to
CurrentImage == [url |-> "after", date |-> "today"]

\* the locals of an analyzeSite call: those of the detectChanges run it
\* makes, and
\*   gisLayers           what loadGISLayers resolved to
\*   processedSites      what the processDetectedSite calls resolved to
\*   loadGISLayersCalls, imageryCalls, detectChangesCalls, setItemCalls
\*                       calls this run made of loadGISLayers, of
\*                       getHistoricalImagery / getCurrentImagery, of
\*                       detectChanges and of localStorage.setItem
NewAnalysis ==
  [gisLayers |-> NoLayers, processedSites |-> <<>>,
   loadGISLayersCalls |-> 0, imageryCalls |-> 0, detectChangesCalls |-> 0,
   setItemCalls |-> 0, storageAtAwait |-> NoValue] @@ NewFrame

\* a plausible slip: the stored list is read before the await of the
\* processDetectedSite calls
existingSitesBeforeAwait(storageAtAwait, storage) ==
  getDetectedSites(storageAtAwait)

\* const existingSites = getDetectedSites(), read after the await;
\* storageAtAwait is what storage held when the run suspended
existingSites(storageAtAwait, storage) == getDetectedSites(storage)

AnalyzeSiteCall(coordinates, historicalDate) ==
  [kind |-> "analyzeSite",
   images |-> [before |-> "image", after |-> "image"],
   coordinates |-> coordinates, historicalDate |-> historicalDate]

\* the calls callers make: every coordinates string without a date, and
\* the well-formed in-region one with every date
AnalyzeSiteCalls ==
  {AnalyzeSiteCall(cs, "null") : cs \in CoordinateStrings}
  \cup {AnalyzeSiteCall(<<Num(1740), Num(7850)>>, d) : d \in HistoricalDates}

\* the change detectChanges built, with the fields processDetectedSite reads;
\* its coordinates are taken at the query point
ChangeAt(ch, c) ==
  LET p == parseCoordinates(c.coordinates)
  IN  [coordinates |-> [lat |-> p.lat.value, lng |-> p.lng.value],
       beforeImage |-> HistoricalImage(c.historicalDate).url,
       afterImage |-> CurrentImage.url] @@ ch

\* the object analyzeSite returns when changeDetection.hasChange is false
NoChangeResult(c, changeDetection) ==
  LET beforeImage == HistoricalImage(c.historicalDate)
  IN  [hasChange |-> FALSE,
       message |-> "No significant construction changes detected",
       confidence |-> changeDetection.confidence,
       beforeImage |-> beforeImage.url, afterImage |-> CurrentImage.url,
       beforeImageDate |-> beforeImage.date,
       beforeImageYear |-> beforeImage.year,
       yearsBack |-> beforeImage.yearsBack,
       analysisDate |-> "now"]

\* the object analyzeSite returns after it has stored the sites
ChangeResult(c, processedSites) ==
  LET beforeImage == HistoricalImage(c.historicalDate)
  IN  [hasChange |-> TRUE,
       sites |-> processedSites,
       beforeImage |-> beforeImage.url, afterImage |-> CurrentImage.url,
       beforeImageDate |-> beforeImage.date,
       beforeImageYear |-> beforeImage.year,
       yearsBack |-> beforeImage.yearsBack,
       analysisDate |-> "now"]

(* SpecAnalyze: callers call analyzeSite; the GIS layer source, the        *)
(* imagery source, TensorFlow.js and the timers settle in any order        *)

\* analyzeSite up to `await loadGISLayers()`, or to the exception of its
\* validation
AnalyzeSite(a, c) ==
  /\ a.pc = "idle"
  /\ LET p == parseCoordinates(c.coordinates)
     IN  IF Falsy(p.lat) \/ Falsy(p.lng)
         THEN Take(a, c, Outcome("thrown",
                           [NewAnalysis EXCEPT !.failedStep = "format"],
                           NoValue, mlModelService, tfLoads))
         ELSE IF ~isWithinHyderabadRegion(p.lat.value, p.lng.value)
         THEN Take(a, c, Outcome("thrown",
                           [NewAnalysis EXCEPT !.failedStep = "region"],
                           NoValue, mlModelService, tfLoads))
         ELSE Take(a, c, Outcome("awaitGISLayers",
                           [NewAnalysis EXCEPT !.loadGISLayersCalls = @ + 1],
                           NoValue, mlModelService, tfLoads))
  /\ UNCHANGED varsOutsidePipeline

\* loadGISLayers settles (it never rejects); getHistoricalImagery and
\* getCurrentImagery are called and their Promise.all is awaited
GISLayersSettle(a, layers) ==
  /\ a.pc = "awaitGISLayers"
  /\ Take(a, a.call, Outcome("awaitImagery",
                       [a.frame EXCEPT !.gisLayers = layers,
                                       !.imageryCalls = @ + 2],
                       NoValue, mlModelService, tfLoads))
  /\ UNCHANGED varsOutsidePipeline

\* the Promise.all of the two imagery calls settles.  getHistoricalImagery
\* rejects when `new Date(date).toISOString()` raises a RangeError, which
\* leaves analyzeSite; otherwise both resolve to image objects and
\* detectChanges runs to its first await
ImagerySettles(a) ==
  /\ a.pc = "awaitImagery"
  /\ LET f == [a.frame EXCEPT !.detectChangesCalls = @ + 1]
     IN  IF a.call.historicalDate = "invalid"
         THEN Take(a, a.call, Outcome("thrown",
                                [a.frame EXCEPT !.failedStep = "imagery"],
                                NoValue, mlModelService, tfLoads))
         ELSE IF ~mlModelService.modelsLoaded
         THEN LET l == loadModels(mlModelService, tfLoads)
              IN  Take(a, a.call, Outcome("awaitLoad", f, NoValue, l.ml, l.tf))
         ELSE Take(a, a.call, BeginUNet(a.call, f, mlModelService, tfLoads))
  /\ UNCHANGED varsOutsidePipeline

\* analyzeSite resumes from `await detectChanges(...)`: it returns the
\* no-change object, or maps processDetectedSite over the changes and
\* awaits the result
AnalyzeSiteResumes(a) ==
  /\ a.call # NoValue
  /\ a.call.kind = "analyzeSite"
  /\ a.pc \in {"done", "rejected"}
  /\ IF a.pc = "rejected"
     THEN Take(a, a.call, Outcome("thrown", a.frame, NoValue,
                                  mlModelService, tfLoads))
     ELSE IF ~a.result.hasChange
     THEN Take(a, a.call, Outcome("returned", a.frame,
                                  NoChangeResult(a.call, a.result),
                                  mlModelService, tfLoads))
     ELSE Take(a, a.call, Outcome("awaitProcessedSites",
            [a.frame EXCEPT !.processedSites =
               [k \in 1..Len(a.result.changes) |->
                  processDetectedSite(ChangeAt(a.result.changes[k], a.call),
                                      a.frame.gisLayers)],
                            !.storageAtAwait = localStorage],
            a.result, mlModelService, tfLoads))
  /\ UNCHANGED varsOutsidePipeline

\* analyzeSite resumes from the Promise.all of the processDetectedSite
\* calls: it appends the sites to the stored list and returns
SitesProcessed(a) ==
  /\ a.pc = "awaitProcessedSites"
  /\ localStorage' =
       setItem(existingSites(a.frame.storageAtAwait, localStorage)
                 \o a.frame.processedSites)
  /\ Take(a, a.call, Outcome("returned",
                       [a.frame EXCEPT !.setItemCalls = @ + 1],
                       ChangeResult(a.call, a.frame.processedSites),
                       mlModelService, tfLoads))
  /\ UNCHANGED <<varsGIS, varsDistrict, varsRegions, returned, clock,
                 varsImagery,
                 varsStage>>

InitAnalyze ==
  /\ IdlePipeline
  /\ IdleGIS /\ IdleDistrict /\ IdleRegions /\ IdleStorage /\ IdleImagery
  /\ IdleStage

NextAnalyze ==
  \/ \E a \in BagToSet(calls) : \E c \in AnalyzeSiteCalls : AnalyzeSite(a, c)
  \/ \E a \in BagToSet(calls) : \E layers \in LoadedLayers :
       GISLayersSettle(a, layers)
  \/ \E a \in BagToSet(calls) : ImagerySettles(a)
  \/ \E ok \in BOOLEAN : UNetLoadSettles(ok)
  \/ \E ok \in BOOLEAN : MaskRCNNLoadSettles(ok)
  \/ ModelsLoaded
  \/ \E a \in BagToSet(calls) : ResumeAfterLoad(a)
  \/ \E a \in BagToSet(calls) : \E ok \in BOOLEAN : BeforeImageSettles(a, ok)
  \/ \E a \in BagToSet(calls) : \E ok, predictOk \in BOOLEAN :
       AfterImageSettles(a, ok, predictOk)
  \/ \E a \in BagToSet(calls) : \E ok \in BOOLEAN : PredictionDataSettles(a, ok)
  \/ \E a \in BagToSet(calls) : \E ok \in BOOLEAN :
       \E n \in (IF ok THEN 0..MaxRegions ELSE {0}) :
         \E conf \in MaskMaxima(n) : MaskDataSettles(a, ok, n, conf)
  \/ \E a \in BagToSet(calls) : \E ok \in BOOLEAN :
       \E prediction \in PredictionsOf(mlModelService.maskRCNNModel) :
         \E detected \in DetectionsOf(prediction) : \E kept \in SUBSET detected :
           BuildingImageSettles(a, ok, prediction, detected, kept)
  \/ \E a \in BagToSet(calls) : \E p \in RandomDraws :
       \E q \in (IF p > 60 THEN RandomDraws ELSE {0}) :
         FallbackTimerFires(a, p, q)
  \/ \E a \in BagToSet(calls) : AnalyzeSiteResumes(a)
  \/ \E a \in BagToSet(calls) : SitesProcessed(a)

SpecAnalyze == InitAnalyze /\ [][NextAnalyze]_vars

(* SpecSites: callers run analyzeSite at a well-formed point of the region *)
(* on a store that holds a site already, while status updates arrive and   *)
(* time passes                                                              *)

\* the call every caller makes
SiteCall == AnalyzeSiteCall(<<Num(1740), Num(7850)>>, "null")

\* the list in storage at the start: the site an earlier run stored for the
\* second building it detected
PreviouslyStored ==
  <<processDetectedSite(
      ChangeAt([id |-> <<"building", 1>>, detectionMethod |-> MLLabel],
               SiteCall),
      EmptyLayers)>>

\* the id status updates are requested for: that of the first building of
\* a run
UpdatedIds == {<<"building", 0>>}

InitSites ==
  /\ IdlePipeline
  /\ localStorage = setItem(PreviouslyStored)
  /\ returned = NoValue
  /\ clock = 0
  /\ IdleGIS /\ IdleDistrict /\ IdleRegions /\ IdleImagery /\ IdleStage

NextSites ==
  \/ \E a \in BagToSet(calls) : AnalyzeSite(a, SiteCall)
  \/ \E a \in BagToSet(calls) : GISLayersSettle(a, EmptyLayers)
  \/ \E a \in BagToSet(calls) : ImagerySettles(a)
  \/ \E ok \in BOOLEAN : UNetLoadSettles(ok)
  \/ \E ok \in BOOLEAN : MaskRCNNLoadSettles(ok)
  \/ ModelsLoaded
  \/ \E a \in BagToSet(calls) : ResumeAfterLoad(a)
  \/ \E a \in BagToSet(calls) : \E ok \in BOOLEAN : BeforeImageSettles(a, ok)
  \/ \E a \in BagToSet(calls) : \E ok, predictOk \in BOOLEAN :
       AfterImageSettles(a, ok, predictOk)
  \/ \E a \in BagToSet(calls) : \E ok \in BOOLEAN : PredictionDataSettles(a, ok)
  \/ \E a \in BagToSet(calls) : \E ok \in BOOLEAN :
       \E n \in (IF ok THEN 0..MaxRegions ELSE {0}) :
         \E conf \in MaskMaxima(n) : MaskDataSettles(a, ok, n, conf)
  \/ \E a \in BagToSet(calls) : \E ok \in BOOLEAN :
       \E prediction \in PredictionsOf(mlModelService.maskRCNNModel) :
         \E detected \in DetectionsOf(prediction) : \E kept \in SUBSET detected :
           BuildingImageSettles(a, ok, prediction, detected, kept)
  \/ \E a \in BagToSet(calls) : \E p \in RandomDraws :
       \E q \in (IF p > 60 THEN RandomDraws ELSE {0}) :
         FallbackTimerFires(a, p, q)
  \/ \E a \in BagToSet(calls) : AnalyzeSiteResumes(a)
  \/ \E a \in BagToSet(calls) : SitesProcessed(a)
  \/ \E id \in UpdatedIds : UpdateSiteStatus(id, "VERIFIED", "checked")
  \/ Tick

SpecSites == InitSites /\ [][NextSites]_vars

(* Properties of analyzeSite *)

\* the analyzeSite calls made so far
AnalyzeSiteRuns ==
  {a \in BagToSet(calls) : a.call # NoValue /\ a.call.kind = "analyzeSite"}

\* a coordinates string that is not two numbers separated by a comma
Malformed(cs) ==
  \/ Len(cs) # 2
  \/ \E k \in 1..Len(cs) : ~cs[k].numeric \/ cs[k].rest

\* two numbers that name a point outside the service region
OutOfRegion(cs) ==
  /\ ~Malformed(cs)
  /\ ~isWithinHyderabadRegion(cs[1].value, cs[2].value)

\* C12: analyzeSite rejects malformed or out-of-region coordinates with an
\* error before anything else happens: such a call has loaded no GIS layer,
\* fetched no imagery, loaded or run no model, and written no site list
C12_BadCoordinatesRejectedFirst ==
  \A a \in AnalyzeSiteRuns :
    (Malformed(a.call.coordinates) \/ OutOfRegion(a.call.coordinates)) =>
      /\ a.pc = "thrown"
      /\ a.frame.failedStep \in {"format", "region"}
      /\ a.frame.loadGISLayersCalls = 0
      /\ a.frame.imageryCalls = 0
      /\ a.frame.detectChangesCalls = 0
      /\ a.frame.setItemCalls = 0
      /\ a.result = NoValue

\* the image references and the date every result holds, and sites exactly
\* with hasChange
HasImagesAndDate(result) ==
  /\ {"hasChange", "beforeImage", "afterImage", "analysisDate"}
       \subseteq DOMAIN result
  /\ ("sites" \in DOMAIN result) <=> result.hasChange

\* the imagery of a run failed: the imagery call rejected, or an image it
\* gave could not be loaded
ImageryFailed(a) ==
  /\ a.frame.imageryCalls > 0
  /\ a.pc # "awaitImagery"
  /\ a.call.historicalDate = "invalid" \/ a.frame.failedStep = "imageLoad"

\* C13: when the imagery source fails for the before or the after image,
\* analyzeSite does not fail: the run takes the fallback path and returns a
\* structurally valid result
C13_FailedImageryTakesFallback ==
  \A a \in AnalyzeSiteRuns :
    ImageryFailed(a) =>
      /\ a.pc # "thrown"
      /\ a.frame.path = "fallback"
      /\ a.pc = "returned" => HasImagesAndDate(a.result)

\* C14: every result analyzeSite returns holds hasChange, confidence, the
\* before and after image references and an analysisDate, and holds sites
\* exactly when hasChange is true
C14_ResultHasAllFields ==
  \A a \in AnalyzeSiteRuns :
    a.pc = "returned" =>
      /\ {"hasChange", "confidence", "beforeImage", "afterImage",
          "analysisDate"} \subseteq DOMAIN a.result
      /\ ("sites" \in DOMAIN a.result) <=> a.result.hasChange


\* C27: in every result detectChanges returns, hasChange is true exactly
\* when the changes list is non-empty, so that analyzeSite never returns
\* hasChange: true with an empty sites list
C27_HasChangeIffChanges ==
  \A a \in AnalyzeSiteRuns :
    /\ a.pc = "done" => (a.result.hasChange <=> a.result.changes # <<>>)
    /\ (a.pc = "returned" /\ a.result.hasChange) => a.result.sites # <<>>

\* C28 (over the points of SpecDistrict): every point that
\* isWithinHyderabadRegion accepts gets one of the five named districts
\* from getDistrict, never 'Unknown'
C28_RegionPointsHaveDistrict ==
  (district # NoValue /\ isWithinHyderabadRegion(point.lat, point.lng))
    => district.name # "Unknown"

\* what does hold: a point outside the region never gets a named district,
\* and a point inside gets a name exactly when a rule's rectangle holds it
C28_NamedOnlyInsideRules ==
  district # NoValue =>
    /\ ~isWithinHyderabadRegion(point.lat, point.lng)
         => district.name = "Unknown"
    /\ district.name # "Unknown" <=> MatchingRules(point) # {}

(* Properties of the stored site list under analyzeSite runs *)

\* the sites storage holds
StoredList == getDetectedSites(localStorage)

\* C26: after any sequence of analyzeSite runs and status updates the sites
\* held in storage have pairwise distinct ids, so that an id addresses
\* exactly one stored site
C26_StoredIdsDistinct ==
  \A i, j \in 1..Len(StoredList) :
    i # j => StoredList[i].id # StoredList[j].id

\* what does hold: the sites one run stores have pairwise distinct ids
C26_IdsDistinctWithinRun ==
  \A a \in AnalyzeSiteRuns :
    \A i, j \in 1..Len(a.frame.processedSites) :
      i # j => a.frame.processedSites[i].id # a.frame.processedSites[j].id

\* a site without the fields updateSiteStatus writes
Produced(s) ==
  [f \in DOMAIN s \ {"status", "remarks", "updatedDate"} |-> s[f]]

\* how often the list holds the produced site v
Occurrences(list, v) ==
  Cardinality({k \in 1..Len(list) : Produced(list[k]) = v})

\* the runs that have appended their sites and returned
StoredRuns ==
  {a \in AnalyzeSiteRuns : a.pc = "returned" /\ a.result.hasChange}

RECURSIVE OccurrencesInRuns(_, _)
OccurrencesInRuns(runs, v) ==
  IF runs = {} THEN 0
  ELSE LET a == CHOOSE x \in runs : TRUE
       IN  CopiesIn(a, calls) * Occurrences(a.frame.processedSites, v)
             + OccurrencesInRuns(runs \ {a}, v)

\* every site a list of sites or a run can hold
ProducedSites ==
  {Produced(StoredList[k]) : k \in 1..Len(StoredList)}
  \cup {Produced(PreviouslyStored[k]) : k \in 1..Len(PreviouslyStored)}
  \cup UNION {{Produced(a.frame.processedSites[k]) :
                 k \in 1..Len(a.frame.processedSites)} : a \in StoredRuns}

\* C29: under any interleaving of concurrent analyzeSite runs and status
\* updates, the stored list holds every previously stored site and every
\* site of each run that has returned, each as often as it was produced:
\* no append overwrites or loses another, and the previously stored sites
\* come first
C29_NoAppendLost ==
  /\ \A v \in ProducedSites :
       Occurrences(StoredList, v)
         = Occurrences(PreviouslyStored, v) + OccurrencesInRuns(StoredRuns, v)
  /\ \A k \in 1..Len(PreviouslyStored) :
       /\ k <= Len(StoredList)
       /\ Produced(StoredList[k]) = Produced(PreviouslyStored[k])

\* two runs were both suspended at the await of their processDetectedSite
\* calls before either had written, both have stored sites and returned,
\* and a status update changed a stored site in between or after
C29_Witness ==
  /\ returned # NoValue
  /\ returned.value # Null
  /\ \E a, b \in StoredRuns :
       /\ a # b \/ CopiesIn(a, calls) = 2
       /\ a.frame.processedSites # <<>>
       /\ b.frame.processedSites # <<>>
       /\ a.frame.storageAtAwait = setItem(PreviouslyStored)
       /\ b.frame.storageAtAwait = setItem(PreviouslyStored)

----------------------------------------------------------------------------
(* mlModelService.js: detectChangesWithUNet and                            *)
(* detectBuildingsWithMaskRCNN, with the tensors they create               *)

\* candidates in the output of a detection model
MaxCandidates == 2

\* Math.min(boxes.shape[1] || 0, 100)
detectionLimit == 100

\* tf.zeros([1, 10, 4]): the candidates of the placeholder
placeholderCandidates == 10

\* A candidate is its score and class and its box, scaled to the image:
\* x, y, width and height in pixels.  Scores are in hundredths: on the
\* threshold 0.5 and above it.  The boxes have their centres on, next to
\* and away from the edges of the region boxes below.
CandidateBoxes ==
  {[x |-> x, y |-> y, width |-> w, height |-> 2] :
     x \in {3, 7, 8, 13}, y \in {3, 5}, w \in {1, 2}}

Candidates ==
  [score : {50, 80}, box : CandidateBoxes, class : {1}]

\* the output of createPlaceholderMaskRCNN's predict: boxes of zeros,
\* scores of 0.8, classes of 1
PlaceholderOutput ==
  [k \in 1..placeholderCandidates |->
     [score |-> 80, box |-> [x |-> 0, y |-> 0, width |-> 0, height |-> 0],
      class |-> 1]]

\* what maskRCNNModel.predict gives:
\*   array    [boxes, scores, masks, classes] of a graph model
\*   tensor   a single tensor of a graph model
\*   throws   an exception
\*   promise  the placeholder's async predict: a promise of an object
\*            { boxes, scores, masks, classes }
RealPredictions ==
  {[form |-> "array", candidates |-> cs] :
     cs \in SeqUpTo(Candidates, MaxCandidates) \cup {PlaceholderOutput}}
  \cup {[form |-> "tensor", candidates |-> <<>>],
        [form |-> "throws", candidates |-> <<>>]}

PlaceholderPredictions ==
  {[form |-> "promise", candidates |-> PlaceholderOutput]}

\* the changeRegions argument: none, one region, two regions
RegionLists ==
  {<<>>,
   <<[id |-> 0, bbox |-> [x |-> 4, y |-> 4, x2 |-> 8, y2 |-> 8]]>>,
   <<[id |-> 0, bbox |-> [x |-> 4, y |-> 4, x2 |-> 8, y2 |-> 8]],
     [id |-> 1, bbox |-> [x |-> 12, y |-> 0, x2 |-> 16, y2 |-> 4]]>>}

\* a tensor, by the name of the variable or expression that holds it
Tensor(name) == [name |-> name]

\* preprocessImageForUNet(img): fromPixels, resizeBilinear, div, expandDims;
\* the last is returned
PreprocessTensors(which) ==
  {Tensor(<<which, "tensor">>), Tensor(<<which, "resized">>),
   Tensor(<<which, "normalized">>), Tensor(<<which, "batched">>)}

\* the tensors a prediction of the detection model consists of; the
\* placeholder also creates tf.ones([1, 10]) before .mul(0.8)
PredictionTensors(prediction) ==
  CASE prediction.form = "array" ->
         {Tensor(<<"predictions", "boxes">>), Tensor(<<"predictions", "scores">>),
          Tensor(<<"predictions", "masks">>), Tensor(<<"predictions", "classes">>)}
    [] prediction.form = "promise" ->
         {Tensor(<<"predictions", "boxes">>), Tensor(<<"predictions", "scores">>),
          Tensor(<<"predictions", "masks">>), Tensor(<<"predictions", "classes">>),
          Tensor(<<"predictions", "ones">>)}
    [] prediction.form = "tensor" -> {Tensor(<<"predictions", "tensor">>)}
    [] OTHER -> {}

\* postprocessMaskRCNN: the candidates of an array with a score above 0.5,
\* in order, at most detectionLimit looked at; nothing for any other value
postprocessMaskRCNN(predictions) ==
  IF predictions.form = "array"
  THEN LET n == IF Len(predictions.candidates) < detectionLimit
                THEN Len(predictions.candidates) ELSE detectionLimit
           all == [k \in 1..n |->
                     [id |-> <<"building", k - 1>>,
                      bbox |-> predictions.candidates[k].box,
                      confidence |-> predictions.candidates[k].score,
                      class |-> predictions.candidates[k].class]]
       IN  SelectSeq(all, LAMBDA b : b.confidence > 50)
  ELSE <<>>

\* box.slice(...).squeeze() and masks.slice(...) of each building; the mask
\* slices are returned inside the buildings
SliceTensors(buildings) ==
  {Tensor(<<"box.slice", buildings[k].id[2]>>) : k \in 1..Len(buildings)}
  \cup {Tensor(<<"box", buildings[k].id[2]>>) : k \in 1..Len(buildings)}

MaskTensors(buildings) ==
  {Tensor(<<"mask", buildings[k].id[2]>>) : k \in 1..Len(buildings)}

\* centerX >= r.x && centerX <= r.x2 && centerY >= r.y && centerY <= r.y2
\* with centerX = bbox.x + bbox.width / 2, compared in half pixels
CenterInside(bbox, r) ==
  /\ 2 * bbox.x + bbox.width >= 2 * r.x
  /\ 2 * bbox.x + bbox.width <= 2 * r.x2
  /\ 2 * bbox.y + bbox.height >= 2 * r.y
  /\ 2 * bbox.y + bbox.height <= 2 * r.y2

filterBuildingsInChangeRegions(buildings, changeRegions) ==
  SelectSeq(buildings,
            LAMBDA b : \E k \in 1..Len(changeRegions) :
                         CenterInside(b.bbox, changeRegions[k].bbox))

\* the stage calls, at their first await inside the try (the models are
\* loaded): the image arguments are image objects
StageCalls ==
  {[kind |-> "detectChangesWithUNet", pc |-> "awaitBeforeImage",
    live |-> {}, handedOver |-> {}, result |-> NoValue]}
  \cup {[kind |-> "detectBuildingsWithMaskRCNN", pc |-> "awaitImage",
         maskRCNNModel |-> "real", predictions |-> p, changeRegions |-> r,
         buildings |-> <<>>, live |-> {}, handedOver |-> {},
         result |-> NoValue] : p \in RealPredictions, r \in RegionLists}
  \cup {[kind |-> "detectBuildingsWithMaskRCNN", pc |-> "awaitImage",
         maskRCNNModel |-> "placeholder", predictions |-> p,
         changeRegions |-> r, buildings |-> <<>>, live |-> {},
         handedOver |-> {}, result |-> NoValue] :
           p \in PlaceholderPredictions, r \in RegionLists}

\* the catch of a stage: the error is thrown on
Thrown(st, error) == [st EXCEPT !.pc = "thrown", !.result = [error |-> error]]

(* SpecStages: one stage call from its image loads to its return *)

InitStages ==
  /\ stage \in StageCalls
  /\ IdleGIS /\ IdlePipeline /\ IdleDistrict /\ IdleRegions /\ IdleStorage
  /\ IdleImagery

StageStep(st) ==
  /\ stage' = st
  /\ UNCHANGED <<varsGIS, varsPipeline, varsDistrict, varsRegions,
                 varsStorage, varsImagery>>

\* loadImageElement(beforeImage.url) settles
UNetBeforeImageLoads(ok) ==
  /\ stage.kind = "detectChangesWithUNet"
  /\ stage.pc = "awaitBeforeImage"
  /\ StageStep(IF ok THEN [stage EXCEPT !.pc = "awaitAfterImage"]
               ELSE Thrown(stage, "image"))

\* loadImageElement(afterImage.url) settles; the images are preprocessed
\* and concatenated, predict runs, and postprocessChangeMask awaits
\* prediction.data()
UNetAfterImageLoads(ok, predictOk) ==
  /\ stage.kind = "detectChangesWithUNet"
  /\ stage.pc = "awaitAfterImage"
  /\ LET inputs == PreprocessTensors("before") \cup PreprocessTensors("after")
                     \cup {Tensor(<<"input", "concat">>)}
     IN  StageStep(
           IF ~ok THEN Thrown(stage, "image")
           ELSE IF ~predictOk
           THEN Thrown([stage EXCEPT !.live = inputs], "predict")
           ELSE [stage EXCEPT
                   !.pc = "awaitPredictionData",
                   !.live = inputs \cup {Tensor(<<"prediction", "tensor">>)}])

\* the tensors detectChangesWithUNet disposes before it returns
UNetCleanUp ==
  {Tensor(<<"before", "batched">>), Tensor(<<"after", "batched">>),
   Tensor(<<"input", "concat">>), Tensor(<<"prediction", "tensor">>)}

\* prediction.data() settles: on a failure postprocessChangeMask returns
\* its empty result and detectChangesWithUNet cleans up and returns;
\* otherwise the threshold and the binary mask are created and
\* findChangeRegions awaits mask.data()
UNetPredictionData(ok) ==
  /\ stage.kind = "detectChangesWithUNet"
  /\ stage.pc = "awaitPredictionData"
  /\ StageStep(
       IF ~ok
       THEN [stage EXCEPT !.pc = "returned",
                          !.live = @ \ UNetCleanUp,
                          !.result = [mask |-> "null", regions |-> 0]]
       ELSE [stage EXCEPT
               !.pc = "awaitMaskData",
               !.live = @ \cup {Tensor(<<"threshold", "scalar">>),
                                Tensor(<<"binaryMask", "greater">>)}])

\* mask.data() settles and findChangeRegions returns n regions (none on a
\* failure); the threshold is disposed, the change mask is built around
\* the binary mask, detectChangesWithUNet cleans up and returns it
UNetMaskData(ok, n) ==
  /\ stage.kind = "detectChangesWithUNet"
  /\ stage.pc = "awaitMaskData"
  /\ StageStep([stage EXCEPT
       !.pc = "returned",
       !.live = (@ \ {Tensor(<<"threshold", "scalar">>)}) \ UNetCleanUp,
       !.handedOver = {Tensor(<<"binaryMask", "greater">>)},
       !.result = [mask |-> "binaryMask", regions |-> IF ok THEN n ELSE 0]])

\* loadImageElement(image.url) settles; the image is preprocessed, predict
\* runs, and postprocessMaskRCNN (an async function without an await) runs
\* to its end
MaskRCNNImageLoads(ok) ==
  /\ stage.kind = "detectBuildingsWithMaskRCNN"
  /\ stage.pc = "awaitImage"
  /\ LET inputs == PreprocessTensors("image")
         buildings == postprocessMaskRCNN(stage.predictions)
     IN  StageStep(
           IF ~ok THEN Thrown(stage, "image")
           ELSE IF stage.predictions.form = "throws"
           THEN Thrown([stage EXCEPT !.live = inputs], "predict")
           ELSE [stage EXCEPT
                   !.pc = "awaitPostprocess",
                   !.buildings = buildings,
                   !.live = inputs \cup PredictionTensors(stage.predictions)
                              \cup SliceTensors(buildings)
                              \cup MaskTensors(buildings)])

\* detectBuildingsWithMaskRCNN resumes from `await postprocessMaskRCNN`:
\* with regions it returns the filtered buildings; without, it disposes
\* its tensors and calls predictions.dispose(), which only a tensor has
MaskRCNNPostprocessed ==
  /\ stage.kind = "detectBuildingsWithMaskRCNN"
  /\ stage.pc = "awaitPostprocess"
  /\ StageStep(
       IF Len(stage.changeRegions) > 0
       THEN LET kept == filterBuildingsInChangeRegions(stage.buildings,
                                                       stage.changeRegions)
            IN  [stage EXCEPT !.pc = "returned",
                              !.handedOver = MaskTensors(kept),
                              !.result = [buildings |-> kept]]
       ELSE LET live == stage.live \ PreprocessTensors("image")
            IN  IF stage.predictions.form = "tensor"
                THEN [stage EXCEPT
                        !.pc = "returned",
                        !.live = live \ PredictionTensors(stage.predictions),
                        !.handedOver = MaskTensors(stage.buildings),
                        !.result = [buildings |-> stage.buildings]]
                ELSE Thrown([stage EXCEPT !.live = live], "TypeError"))

NextStages ==
  \/ \E ok \in BOOLEAN : UNetBeforeImageLoads(ok)
  \/ \E ok, predictOk \in BOOLEAN : UNetAfterImageLoads(ok, predictOk)
  \/ \E ok \in BOOLEAN : UNetPredictionData(ok)
  \/ \E ok \in BOOLEAN : \E n \in 0..MaxRegions : UNetMaskData(ok, n)
  \/ \E ok \in BOOLEAN : MaskRCNNImageLoads(ok)
  \/ MaskRCNNPostprocessed

SpecStages == InitStages /\ [][NextStages]_vars

(* Properties of the inference stages *)

\* the stage call has come to its end
StageEnded == stage.pc \in {"returned", "thrown"}

\* the centre (x + width / 2, y + height / 2) of a box lies in the box of
\* a region, edges included; in half pixels
CentreInRegion(bbox, region) ==
  LET cx2 == 2 * bbox.x + bbox.width
      cy2 == 2 * bbox.y + bbox.height
  IN  /\ 2 * region.bbox.x <= cx2 /\ cx2 <= 2 * region.bbox.x2
      /\ 2 * region.bbox.y <= cy2 /\ cy2 <= 2 * region.bbox.y2

\* the elements of a sequence, as a set
Elements(q) == {q[k] : k \in 1..Len(q)}

\* the detection model gave its prediction and the detections were read
DetectionsRead ==
  /\ stage # NoValue
  /\ stage.kind = "detectBuildingsWithMaskRCNN"
  /\ StageEnded
  /\ stage.pc = "thrown" => stage.result.error \notin {"image", "predict"}

\* C22: detectBuildingsWithMaskRCNN returns exactly the detections whose
\* box centre lies inside, edges included, the box of a supplied region;
\* without regions it returns all detections, and does not raise
C22_FilterByRegionOrPassThrough ==
  DetectionsRead =>
    /\ stage.pc = "returned"
    /\ IF Len(stage.changeRegions) > 0
       THEN Elements(stage.result.buildings) =
              {b \in Elements(stage.buildings) :
                 \E r \in Elements(stage.changeRegions) :
                   CentreInRegion(b.bbox, r)}
       ELSE stage.result.buildings = stage.buildings

\* C23: when a stage call returns or throws, every tensor it created, but
\* for those inside the value it returned, has been disposed
C23_StageTensorsDisposed ==
  (stage # NoValue /\ StageEnded) => stage.live \ stage.handedOver = {}

\* C25: the placeholder's prediction is read like that of a real model
\* with the same candidates: each candidate with a score above 0.5 becomes
\* one detection
C25_PlaceholderReadLikeRealModel ==
  (/\ stage # NoValue
   /\ stage.kind = "detectBuildingsWithMaskRCNN"
   /\ stage.maskRCNNModel = "placeholder"
   /\ stage.pc \in {"awaitPostprocess", "returned"}) =>
     /\ stage.buildings =
          postprocessMaskRCNN([form |-> "array",
                               candidates |-> stage.predictions.candidates])
     /\ Len(stage.buildings) =
          Cardinality({k \in 1..Len(stage.predictions.candidates) :
                         stage.predictions.candidates[k].score > 50})

====
